---- MODULE Spec2Model ----
(***************************************************************************)
(* gr: a caching "go run".  Two state machines share this module.          *)
(*                                                                         *)
(*   Spec    the run orchestrator (realMain) and the on-disk cache store   *)
(*           (updateCache, cacheCleanup, build), run by several concurrent *)
(*           invocations over several packages.                            *)
(*                                                                         *)
(*   SpecFP  the fingerprint (parseCLI, checksum, the source walk and the  *)
(*           embed resolver), computed twice over a file tree, a command   *)
(*           line and an environment, with one change in between.          *)
(***************************************************************************)
EXTENDS Integers, Sequences, FiniteSets, TLC

(***************************************************************************)
(* Bounds of the model.                                                    *)
(***************************************************************************)
\* invocations of gr that run at the same time (operating-system processes)
NumProcs == 2
\* invocations started in all
MaxRuns == 4
\* packages, each with a cache directory of its own
NumPkgs == 2
\* distinct fingerprints checksum() may return for one package
NumSums == 4

Procs == 1..NumProcs
Pkgs == 1..NumPkgs
Sums == 1..NumSums

(***************************************************************************)
(* Program constants.                                                      *)
(***************************************************************************)
\* faulty variant of keepCacheEntriesOnCleanup: one entry more survives a cleanup
KeepThree == 2 + 1
\* build.go: const keepCacheEntriesOnCleanup
keepCacheEntriesOnCleanup == 2

\* exit statuses of realMain
StatusUsage == 2
StatusFatal == 255
\* status of a Go process that ends in a panic
StatusPanic == 2
\* addChecksum's internal error, a panic
Panic == "panic: checksum requested twice"
\* statuses the wrapped program may exit with (0, and the 3 of testdata/exit3)
ProgStatuses == {0, 3}
\* no status yet
NoStatus == 0 - 1

VARIABLES
    \* ---- orchestrator, per invocation
    pc,        \* where the invocation is in realMain / updateCache
    pkg,       \* absPackagePath of the invocation (0 before parseCLI)
    sum,       \* the fingerprint checksum() returned (0 before)
    exit,      \* exit status of the process (NoStatus while alive)
    wstatus,   \* status the wrapped program exited with (NoStatus if never run)
    hist,      \* what the invocation has done so far
    runs,      \* invocations started so far
    \* ---- cache store, per package
    cacheDir,  \* does <cache>/gr/exe/<package> exist
    cache,     \* the entries of that directory, by fingerprint
    lock,      \* holder of the flock on the directory (0: free)
    mclock,    \* successful builds so far: the source of modification times
    everBuilt, \* fingerprints built so far
    spoiled,   \* an update ran cleanup and then failed, or rebuilt a fingerprint
    quiet,     \* the last stored build and the invocations started since
    starts,    \* invocations of the package started so far
    usedSums,  \* how many fingerprints of the package were computed so far
    usedPkgs,  \* how many packages were run so far
    \* ---- fingerprint computations
    fs,        \* the file tree
    cli,       \* the command line
    environ,   \* the process environment
    phase,     \* "input", "ran", "changed", "done", "launched" ("idle" under Spec)
    r1,        \* the first computation's outcome
    r2,        \* the second computation's outcome
    ch         \* what was changed between the two

ovars == <<pc, pkg, sum, exit, wstatus, hist, runs>>
cvars == <<cacheDir, cache, lock, mclock, everBuilt, spoiled, quiet, starts, usedSums,
           usedPkgs>>
fvars == <<fs, cli, environ, phase, r1, r2, ch>>
vars == <<ovars, cvars, fvars>>

(***************************************************************************)
(* Cache entries.  A path of the cache directory holds nothing, a file     *)
(* the compiler is still writing, or a complete executable.  writes counts *)
(* the compiler outputs put at the path since it last came into being.     *)
(***************************************************************************)
Absent == [st |-> "absent", mtime |-> 0, writes |-> 0]

Present(dir) == {f \in Sums : dir[f].st # "absent"}

Max(a, b) == IF a > b THEN a ELSE b

\* sort.Slice(cacheContents, mtime.Before): the entries by ascending mtime
RECURSIVE SortByMtime(_, _)
SortByMtime(dir, S) ==
    IF S = {} THEN <<>>
    ELSE LET o == CHOOSE f \in S : \A g \in S : dir[f].mtime <= dir[g].mtime
         IN <<o>> \o SortByMtime(dir, S \ {o})

\* faulty variant of CleanupVictims: the loop bound is off by one
CleanupVictimsOffByOne(dir, keep) ==
    LET cacheContents == SortByMtime(dir, Present(dir))
        n == Max(0, Len(cacheContents) - keep - 1)
    IN {cacheContents[i] : i \in 1..n}

\* the entries cacheCleanup removes: all but the `keep` most recent ones
CleanupVictims(dir, keep) ==
    LET cacheContents == SortByMtime(dir, Present(dir))
        n == Max(0, Len(cacheContents) - keep)
    IN {cacheContents[i] : i \in 1..n}

cacheCleanup(dir) ==
    [f \in Sums |->
        IF f \in CleanupVictims(dir, keepCacheEntriesOnCleanup) THEN Absent ELSE dir[f]]

\* faulty variant of execProgram: the probe never finds the entry
ProbeMissesAlways(e) == "ENOENT"

\* what execve of the fingerprinted path returns
execProgram(e) ==
    CASE e.st = "absent" -> "ENOENT"
      [] e.st = "partial" -> "ETXTBSY"
      [] OTHER -> "ok"

\* faulty variant of ExecStatus: the program is run as a child and its
\* failure reported as 1
ExecStatusWrapped(n) == IF n = 0 THEN 0 ELSE 1

\* the exit status of a process whose image the wrapped program replaced
ExecStatus(n) == n

\* faulty variant of packageCacheDir: the lock is taken on the entry's path
LockPerSum(p, s) == <<p, s>>

\* the directory whose handle updateCache locks
\* (a lock key is <<package, 0>>: the lock is the package's, whatever the sum)
packageCacheDir(p, s) == <<p, 0>>

NoHist == [probes |-> 0, locked |-> FALSE, cleaned |-> FALSE, compiled |-> FALSE,
           second |-> FALSE, cold |-> FALSE, raced |-> FALSE, cause |-> "", lines |-> 0]

Active(i) == pc[i] \notin {"init", "exited"}

\* A terminated process is collected by its parent at once: nothing another
\* invocation does depends on it.
NoZombie == \A j \in Procs : pc[j] # "exited"

(***************************************************************************)
(* Init: no invocation has started, the cache is cold.                     *)
(***************************************************************************)
OInit ==
    /\ pc = [i \in Procs |-> "init"]
    /\ pkg = [i \in Procs |-> 0]
    /\ sum = [i \in Procs |-> 0]
    /\ exit = [i \in Procs |-> NoStatus]
    /\ wstatus = [i \in Procs |-> NoStatus]
    /\ hist = [i \in Procs |-> NoHist]
    /\ runs = 0
    /\ cacheDir = [p \in Pkgs |-> FALSE]
    /\ cache = [p \in Pkgs |-> [f \in Sums |-> Absent]]
    /\ lock = [k \in Pkgs \X (0..NumSums) |-> 0]
    /\ mclock = [p \in Pkgs |-> 0]
    /\ everBuilt = [p \in Pkgs |-> {}]
    /\ spoiled = [p \in Pkgs |-> FALSE]
    /\ quiet = [p \in Pkgs |-> [sum |-> 0, n |-> 0]]
    /\ starts = [p \in Pkgs |-> 0]
    /\ usedSums = [p \in Pkgs |-> 0]
    /\ usedPkgs = 0

\* faulty variant of Diagnostic: every end of realMain writes a line
DiagnosticAlways(cause) == 1

\* the lines "gr: ..." realMain writes to the standard error before the
\* return named by `cause`: none after parseCLI failed (it wrote the usage
\* text), none when updateCache returned (false, nil), none when the process
\* ends otherwise than by a return of realMain
Diagnostic(cause) ==
    IF cause \in {"checksum", "probe", "open", "flock", "cleanup", "probe2"} THEN 1 ELSE 0

\* the process ends with `status`; `cause` names the return of realMain taken
Die(i, status, cause, h) ==
    /\ pc' = [pc EXCEPT ![i] = "exited"]
    /\ exit' = [exit EXCEPT ![i] = status]
    /\ hist' = [hist EXCEPT ![i] = [h EXCEPT !.cause = cause, !.lines = Diagnostic(cause)]]

(***************************************************************************)
(* realMain up to the first probe: parseCLI, the cache root, checksum().   *)
(* Invocations are interchangeable, and so are packages and a package's    *)
(* fingerprints: they are taken into use in index order.                   *)
(***************************************************************************)
MayStart(i) ==
    /\ NoZombie
    /\ pc[i] = "init"
    /\ \A j \in Procs : j < i => pc[j] # "init"
    /\ runs < MaxRuns

StartOK(i) ==
    /\ MayStart(i)
    /\ \E p \in Pkgs, s \in Sums :
        /\ p <= usedPkgs + 1
        /\ s <= usedSums[p] + 1
        /\ pkg' = [pkg EXCEPT ![i] = p]
        /\ sum' = [sum EXCEPT ![i] = s]
        /\ hist' = [hist EXCEPT ![i].second = (quiet[p].sum # 0 /\ quiet[p].n = 0),
                                ![i].cold = (Present(cache[p]) = {})]
        /\ starts' = [starts EXCEPT ![p] = @ + 1]
        /\ quiet' = [quiet EXCEPT ![p].n = IF @ < 2 THEN @ + 1 ELSE @]
        /\ usedPkgs' = Max(usedPkgs, p)
        /\ usedSums' = [usedSums EXCEPT ![p] = Max(@, s)]
    /\ pc' = [pc EXCEPT ![i] = "probe"]
    /\ runs' = runs + 1
    /\ UNCHANGED <<exit, wstatus, cacheDir, cache, lock, mclock, everBuilt, spoiled>>
    /\ UNCHANGED fvars

\* no package argument (status 2); no cache root, no absolute path, or
\* checksum() failed (status 255); checksum() ended in a panic
StartFail(i) ==
    /\ MayStart(i)
    /\ \/ Die(i, StatusUsage, "usage", hist[i])
       \/ Die(i, StatusFatal, "checksum", hist[i])
       \/ Die(i, StatusPanic, "panic", hist[i])
    /\ runs' = runs + 1
    /\ UNCHANGED <<pkg, sum, wstatus, cvars>>
    /\ UNCHANGED fvars

(***************************************************************************)
(* TryExec: the first, lock-free probe.                                    *)
(***************************************************************************)
\* faulty variant of FirstProbe: every failure of the probe is taken for a miss
FirstProbeRebuildsOnError(err) == IF err = "ok" THEN "running" ELSE "open"

\* where realMain goes after the first execProgram: the program runs, the
\* file does not exist and the cache is updated, or the invocation fails
FirstProbe(err) ==
    CASE err = "ok" -> "running"
      [] err = "ENOENT" -> "open"
      [] OTHER -> "exited"

TryExec(i) ==
    /\ NoZombie
    /\ pc[i] = "probe"
    /\ LET next == FirstProbe(execProgram(cache[pkg[i]][sum[i]]))
           h == [hist[i] EXCEPT !.probes = @ + 1]
       IN IF next = "exited" THEN Die(i, StatusFatal, "probe", h)
          ELSE /\ pc' = [pc EXCEPT ![i] = next]
               /\ hist' = [hist EXCEPT ![i] = h]
               /\ UNCHANGED exit
    /\ UNCHANGED <<pkg, sum, wstatus, runs, cvars>>
    /\ UNCHANGED fvars

(***************************************************************************)
(* updateCache: open the directory, flock it, clean up, build.             *)
(***************************************************************************)
OpenDir(i) ==
    /\ NoZombie
    /\ pc[i] = "open"
    /\ \/ /\ cacheDir' = [cacheDir EXCEPT ![pkg[i]] = TRUE]
          /\ pc' = [pc EXCEPT ![i] = "flock"]
          /\ UNCHANGED <<exit, hist>>
       \/ /\ Die(i, StatusFatal, "open", hist[i])
          /\ UNCHANGED cacheDir
    /\ UNCHANGED <<pkg, sum, wstatus, runs, cache, lock, mclock, everBuilt,
                   spoiled, quiet, starts, usedSums, usedPkgs>>
    /\ UNCHANGED fvars

LockKey(i) == packageCacheDir(pkg[i], sum[i])

\* faulty variant of AfterFlock: the error of syscall.Flock is dropped
AfterFlockIgnoresError(failed) == "cleanup"

\* where updateCache goes after syscall.Flock returned: on to cacheCleanup,
\* or to a return of the error
AfterFlock(failed) == IF failed THEN "exited" ELSE "cleanup"

Flock(i) ==
    /\ NoZombie
    /\ pc[i] = "flock"
    /\ lock[LockKey(i)] = 0
    /\ lock' = [lock EXCEPT ![LockKey(i)] = i]
    /\ hist' = [hist EXCEPT ![i].locked = TRUE]
    /\ pc' = [pc EXCEPT ![i] = AfterFlock(FALSE)]
    /\ UNCHANGED <<pkg, sum, exit, wstatus, runs, cacheDir, cache, mclock, everBuilt,
                   spoiled, quiet, starts, usedSums, usedPkgs>>
    /\ UNCHANGED fvars

FlockFail(i) ==
    /\ NoZombie
    /\ pc[i] = "flock"
    /\ IF AfterFlock(TRUE) = "exited"
       THEN Die(i, StatusFatal, "flock", hist[i])
       ELSE /\ pc' = [pc EXCEPT ![i] = AfterFlock(TRUE)]
            /\ UNCHANGED <<exit, hist>>
    /\ UNCHANGED <<pkg, sum, wstatus, runs, cvars>>
    /\ UNCHANGED fvars

\* faulty variant of Unlocked: the lock outlives the directory handle
UnlockedNever(i) == lock

\* fh.Close(), deferred in updateCache or done by the kernel when the
\* process ends: the flock goes with the handle
Unlocked(i) == [lock EXCEPT ![LockKey(i)] = 0]

\* faulty variant of AfterUpdate: the second probe is made whatever
\* updateCache returned
AfterUpdateProbesAnyway(updated, failed) == "probe2"

\* where realMain goes after updateCache returned (updated, err): on to the
\* second probe if the cache was updated, to a return of 255 if not
AfterUpdate(updated, failed) == IF failed \/ ~updated THEN "exited" ELSE "probe2"

Cleanup(i) ==
    /\ NoZombie
    /\ pc[i] = "cleanup"
    /\ cache' = [cache EXCEPT ![pkg[i]] = cacheCleanup(@)]
    /\ hist' = [hist EXCEPT ![i].cleaned = TRUE]
    /\ pc' = [pc EXCEPT ![i] = "build"]
    /\ UNCHANGED <<pkg, sum, exit, wstatus, runs, cacheDir, lock, mclock, everBuilt,
                   spoiled, quiet, starts, usedSums, usedPkgs>>
    /\ UNCHANGED fvars

\* os.ReadDir, an entry's Info or os.Remove failed with something other
\* than "not exist": updateCache returns the error, the handle is closed
CleanupFail(i) ==
    /\ NoZombie
    /\ pc[i] = "cleanup"
    /\ lock' = Unlocked(i)
    /\ IF AfterUpdate(FALSE, TRUE) = "exited"
       THEN Die(i, StatusFatal, "cleanup", hist[i])
       ELSE /\ pc' = [pc EXCEPT ![i] = AfterUpdate(FALSE, TRUE)]
            /\ UNCHANGED <<exit, hist>>
    /\ UNCHANGED <<pkg, sum, wstatus, runs, cacheDir, cache, mclock, everBuilt,
                   spoiled, quiet, starts, usedSums, usedPkgs>>
    /\ UNCHANGED fvars

(***************************************************************************)
(* build: `go build -o <fingerprinted path>`.  The compiler is handed the  *)
(* final path, not a temporary name: it either moves the finished          *)
(* executable there in one step or writes it there in place.  It makes     *)
(* the directory of its output if that is missing.                         *)
(***************************************************************************)
Written(i, e) ==
    [st |-> "complete", mtime |-> mclock[pkg[i]] + 1, writes |-> e.writes + 1]

Stored(i) ==
    /\ everBuilt' = [everBuilt EXCEPT ![pkg[i]] = @ \cup {sum[i]}]
    /\ spoiled' = [spoiled EXCEPT ![pkg[i]] = @ \/ sum[i] \in everBuilt[pkg[i]]]
    /\ quiet' = [quiet EXCEPT ![pkg[i]] =
                    IF \E j \in Procs \ {i} : Active(j) /\ pkg[j] = pkg[i]
                    THEN [sum |-> 0, n |-> 0]
                    ELSE [sum |-> sum[i], n |-> 0]]

\* the compiler starts to write its output in place
BuildWrite(i) ==
    /\ NoZombie
    /\ pc[i] = "build"
    /\ cache' = [cache EXCEPT ![pkg[i]][sum[i]] =
                    [st |-> "partial", mtime |-> mclock[pkg[i]] + 1, writes |-> @.writes]]
    /\ cacheDir' = [cacheDir EXCEPT ![pkg[i]] = TRUE]
    /\ hist' = [hist EXCEPT ![i].compiled = TRUE]
    /\ pc' = [pc EXCEPT ![i] = "writing"]
    /\ UNCHANGED <<pkg, sum, exit, wstatus, runs, lock, mclock, everBuilt,
                   spoiled, quiet, starts, usedSums, usedPkgs>>
    /\ UNCHANGED fvars

\* the compiler exits with success: the executable is at the path
BuildOK(i) ==
    /\ NoZombie
    /\ pc[i] \in {"build", "writing"}
    /\ cache' = [cache EXCEPT ![pkg[i]][sum[i]] = Written(i, @)]
    /\ mclock' = [mclock EXCEPT ![pkg[i]] = @ + 1]
    /\ Stored(i)
    /\ hist' = [hist EXCEPT ![i].compiled = TRUE, ![i].second = FALSE]
    /\ lock' = Unlocked(i)
    /\ cacheDir' = [cacheDir EXCEPT ![pkg[i]] = TRUE]
    /\ pc' = [pc EXCEPT ![i] = AfterUpdate(TRUE, FALSE)]
    /\ UNCHANGED <<pkg, sum, exit, wstatus, runs, starts, usedSums, usedPkgs>>
    /\ UNCHANGED fvars

\* the compiler reports failure: no output, updateCache returns false
BuildFail(i) ==
    /\ NoZombie
    /\ pc[i] = "build"
    /\ spoiled' = [spoiled EXCEPT ![pkg[i]] = TRUE]
    /\ lock' = Unlocked(i)
    /\ IF AfterUpdate(FALSE, FALSE) = "exited"
       THEN Die(i, StatusFatal, "build", [hist[i] EXCEPT !.compiled = TRUE])
       ELSE /\ pc' = [pc EXCEPT ![i] = AfterUpdate(FALSE, FALSE)]
            /\ hist' = [hist EXCEPT ![i].compiled = TRUE]
            /\ UNCHANGED exit
    /\ UNCHANGED <<pkg, sum, wstatus, runs, cacheDir, cache, mclock, everBuilt,
                   quiet, starts, usedSums, usedPkgs>>
    /\ UNCHANGED fvars

(***************************************************************************)
(* TryExecAfterBuild: the second probe; every failure is fatal.            *)
(***************************************************************************)
\* faulty variant of SecondProbe: a miss of the second probe starts the
\* update over
SecondProbeRetries(err) ==
    CASE err = "ok" -> "running"
      [] err = "ENOENT" -> "open"
      [] OTHER -> "exited"

\* where realMain goes after the second execProgram: the program runs, or
\* the error is reported and 255 returned
SecondProbe(err) == IF err = "ok" THEN "running" ELSE "exited"

TryExecAfterBuild(i) ==
    /\ NoZombie
    /\ pc[i] = "probe2"
    /\ LET next == SecondProbe(execProgram(cache[pkg[i]][sum[i]]))
           h == [hist[i] EXCEPT !.probes = @ + 1]
       IN IF next = "exited" THEN Die(i, StatusFatal, "probe2", h)
          ELSE /\ pc' = [pc EXCEPT ![i] = next]
               /\ hist' = [hist EXCEPT ![i] = h]
               /\ UNCHANGED exit
    /\ UNCHANGED <<pkg, sum, wstatus, runs, cvars>>
    /\ UNCHANGED fvars

\* the wrapped program, which replaced the process image, exits
ProgExit(i) ==
    /\ NoZombie
    /\ pc[i] = "running"
    /\ \E n \in ProgStatuses :
        /\ wstatus' = [wstatus EXCEPT ![i] = n]
        /\ Die(i, ExecStatus(n), "prog", hist[i])
    /\ UNCHANGED <<pkg, sum, runs, cvars>>
    /\ UNCHANGED fvars

\* the parent collects the terminated process
Reap(i) ==
    /\ pc[i] = "exited"
    /\ pc' = [pc EXCEPT ![i] = "init"]
    /\ pkg' = [pkg EXCEPT ![i] = 0]
    /\ sum' = [sum EXCEPT ![i] = 0]
    /\ exit' = [exit EXCEPT ![i] = NoStatus]
    /\ wstatus' = [wstatus EXCEPT ![i] = NoStatus]
    /\ hist' = [hist EXCEPT ![i] = NoHist]
    /\ UNCHANGED <<runs, cvars>>
    /\ UNCHANGED fvars

(***************************************************************************)
(* cacheCleanup while somebody who does not take the lock (a user, a       *)
(* cleaner of the cache root) deletes from the directory.  The directory   *)
(* may be gone before os.ReadDir; an entry may go between os.ReadDir and   *)
(* its Info (goneInfo), or between its Info and its os.Remove or the end   *)
(* of the cleanup (goneRemove).                                            *)
(***************************************************************************)
\* faulty variant of os_IsNotExist: no error is taken for "not exist"
IsNotExistNever(err) == FALSE

os_IsNotExist(err) == err = "ENOENT"

Vanished(dir, gone) == [f \in Sums |-> IF f \in gone THEN Absent ELSE dir[f]]

\* the loops over the entries, given what Info reported (dir less goneInfo)
CleanupLoops(dir, goneInfo, goneRemove) ==
    IF (CleanupVictims(Vanished(dir, goneInfo), keepCacheEntriesOnCleanup)
            \cap goneRemove) # {} /\ ~os_IsNotExist("ENOENT")
    THEN [failed |-> TRUE, dir |-> Vanished(dir, goneInfo \cup goneRemove)]
    ELSE [failed |-> FALSE,
          dir |-> Vanished(cacheCleanup(Vanished(dir, goneInfo)), goneRemove)]

cacheCleanupRacing(dir, dirGone, goneInfo, goneRemove) ==
    CASE dirGone ->
            [failed |-> ~os_IsNotExist("ENOENT"), dir |-> Vanished(dir, Sums)]
      [] ~dirGone /\ goneInfo # {} /\ ~os_IsNotExist("ENOENT") ->
            [failed |-> TRUE, dir |-> Vanished(dir, goneInfo)]
      [] OTHER -> CleanupLoops(dir, goneInfo, goneRemove)

CleanupRaced(i, dirGone, out) ==
    /\ cache' = [cache EXCEPT ![pkg[i]] = out.dir]
    /\ cacheDir' = [cacheDir EXCEPT ![pkg[i]] = ~dirGone]
    /\ IF out.failed
       THEN /\ lock' = Unlocked(i)
            /\ Die(i, StatusFatal, "cleanup", [hist[i] EXCEPT !.raced = TRUE])
       ELSE /\ pc' = [pc EXCEPT ![i] = "build"]
            /\ hist' = [hist EXCEPT ![i].cleaned = TRUE, ![i].raced = TRUE]
            /\ UNCHANGED <<exit, lock>>

CleanupRacing(i) ==
    /\ NoZombie
    /\ pc[i] = "cleanup"
    /\ \E dirGone \in BOOLEAN, goneInfo, goneRemove \in SUBSET Present(cache[pkg[i]]) :
        /\ goneInfo \cap goneRemove = {}
        /\ dirGone => goneInfo = {} /\ goneRemove = {}
        /\ dirGone \/ goneInfo \cup goneRemove # {}
        /\ CleanupRaced(i, dirGone,
                        cacheCleanupRacing(cache[pkg[i]], dirGone, goneInfo, goneRemove))
    /\ spoiled' = [spoiled EXCEPT ![pkg[i]] = TRUE]
    /\ UNCHANGED <<pkg, sum, wstatus, runs, mclock, everBuilt, quiet, starts, usedSums,
                   usedPkgs>>
    /\ UNCHANGED fvars

\* status of a process ended by a signal
Killed == 0 - 2

\* the invocation is killed anywhere between its start and the exec of the
\* program; the kernel closes its handles, what the compiler wrote so far
\* stays where it is
Crash(i) ==
    /\ NoZombie
    /\ pc[i] \in {"probe", "open", "flock", "cleanup", "build", "writing", "probe2"}
    /\ lock' = IF pc[i] \in {"cleanup", "build", "writing"} THEN Unlocked(i) ELSE lock
    /\ spoiled' = [spoiled EXCEPT ![pkg[i]] = @ \/ pc[i] \in {"build", "writing"}]
    /\ Die(i, Killed, "crash", hist[i])
    /\ UNCHANGED <<pkg, sum, wstatus, runs, cacheDir, cache, mclock, everBuilt,
                   quiet, starts, usedSums, usedPkgs>>
    /\ UNCHANGED fvars

ONext ==
    \E i \in Procs :
        \/ StartOK(i)
        \/ StartFail(i)
        \/ TryExec(i)
        \/ OpenDir(i)
        \/ Flock(i)
        \/ FlockFail(i)
        \/ Cleanup(i)
        \/ CleanupFail(i)
        \/ BuildWrite(i)
        \/ BuildOK(i)
        \/ BuildFail(i)
        \/ TryExecAfterBuild(i)
        \/ ProgExit(i)
        \/ Reap(i)

(***************************************************************************)
(* The fingerprint: parseCLI's compiler flags and environment, the source  *)
(* walk of checksum.go and embed.go, and the canonical serialisation that  *)
(* is hashed.                                                              *)
(*                                                                         *)
(* A Go string is the sequence of its bytes.  A byte is written as a       *)
(* one-character string; "xFE" and "xFF" stand for the bytes 0xFE and      *)
(* 0xFF, which occur in no valid UTF-8 text, and "uFFFD" for the escape    *)
(* json.Marshal writes in place of a byte that is not valid UTF-8.         *)
(***************************************************************************)
\* the bytes the model uses, in ascending byte order
Alphabet ==
    <<"\"", "*", "-", ".", "/", "0", "1", "2", ":", "C", "E", "G", "H", "M", "O", "S",
      "_", "a", "b", "c", "d", "e", "f", "g", "h", "i", "j", "k", "l", "m", "n", "o",
      "p", "q", "r", "s", "t", "u", "v", "w", "x", "y", "z", "xFE", "xFF">>

Ord == [c \in {Alphabet[i] : i \in DOMAIN Alphabet} |->
            CHOOSE i \in DOMAIN Alphabet : Alphabet[i] = c]

InvalidUTF8 == {"xFE", "xFF"}

Lower == {"a", "b", "c", "d", "e", "f", "g", "h", "i", "j", "k", "l", "m", "n", "o",
          "p", "q", "r", "s", "t", "u", "v", "w", "x", "y", "z"}

\* strings.HasPrefix, HasSuffix, TrimPrefix, TrimSuffix
HasPrefix(s, p) == Len(p) <= Len(s) /\ SubSeq(s, 1, Len(p)) = p
HasSuffix(s, x) == Len(x) <= Len(s) /\ SubSeq(s, Len(s) - Len(x) + 1, Len(s)) = x
TrimPrefix(s, p) == IF HasPrefix(s, p) THEN SubSeq(s, Len(p) + 1, Len(s)) ELSE s
TrimSuffix(s, x) == IF HasSuffix(s, x) THEN SubSeq(s, 1, Len(s) - Len(x)) ELSE s

\* strings.Compare(a, b) < 0: byte-wise lexicographic order
RECURSIVE StrLess(_, _)
StrLess(a, b) ==
    IF b = <<>> THEN FALSE
    ELSE IF a = <<>> THEN TRUE
    ELSE IF Head(a) = Head(b) THEN StrLess(Tail(a), Tail(b))
    ELSE Ord[Head(a)] < Ord[Head(b)]

\* sort.Strings / slices.Sorted of a set of strings
RECURSIVE SortStrings(_)
SortStrings(S) ==
    IF S = {} THEN <<>>
    ELSE LET m == CHOOSE a \in S : \A b \in S \ {a} : StrLess(a, b)
         IN <<m>> \o SortStrings(S \ {m})

(***************************************************************************)
(* path/filepath on slash-separated absolute paths.                        *)
(***************************************************************************)
Root == <<"/">>

RECURSIVE SplitPath(_, _, _)
SplitPath(s, cur, acc) ==
    IF s = <<>> THEN Append(acc, cur)
    ELSE IF Head(s) = "/" THEN SplitPath(Tail(s), <<>>, Append(acc, cur))
    ELSE SplitPath(Tail(s), Append(cur, Head(s)), acc)

\* Clean's treatment of empty elements, "." and ".." in a rooted path
RECURSIVE CleanElems(_, _)
CleanElems(elems, out) ==
    IF elems = <<>> THEN out
    ELSE LET e == Head(elems)
         IN IF e = <<>> \/ e = <<".">> THEN CleanElems(Tail(elems), out)
            ELSE IF e = <<".", ".">>
                 THEN CleanElems(Tail(elems),
                                 IF out = <<>> THEN out ELSE SubSeq(out, 1, Len(out) - 1))
                 ELSE CleanElems(Tail(elems), Append(out, e))

RECURSIVE JoinElems(_)
JoinElems(elems) ==
    IF elems = <<>> THEN <<>> ELSE <<"/">> \o Head(elems) \o JoinElems(Tail(elems))

filepath_Clean(path) ==
    LET r == JoinElems(CleanElems(SplitPath(path, <<>>, <<>>), <<>>))
    IN IF r = <<>> THEN Root ELSE r

filepath_Join(dir, elem) == filepath_Clean(dir \o <<"/">> \o elem)

LastSlash(path) ==
    LET I == {i \in DOMAIN path : path[i] = "/"}
    IN IF I = {} THEN 0 ELSE CHOOSE i \in I : \A j \in I : j <= i

\* of a clean rooted path
filepath_Dir(path) ==
    IF LastSlash(path) <= 1 THEN Root ELSE SubSeq(path, 1, LastSlash(path) - 1)

filepath_Base(path) == SubSeq(path, LastSlash(path) + 1, Len(path))

(***************************************************************************)
(* The file tree.  An entry is missing, a regular file with its content, a *)
(* directory, or something else (a symbolic link, a socket, ...).          *)
(* A content is what the parsers make of the file's bytes, and rev tells   *)
(* apart contents that parse alike.                                        *)
(***************************************************************************)
\* how many revisions of a file's text the model tells apart, less one
MaxRev == 1
\* enumeration orders tried: rotations 0..MaxRot of the natural order, each
\* forwards and backwards
MaxRot == 1
\* module hops resolveImport may take before the model declares it stuck
MaxHops == 2

NoEntry == [type |-> "none"]
DirEntry == [type |-> "dir"]
Irregular == [type |-> "irregular"]
File(data) == [type |-> "file", data |-> data]

GoSrc(imports, embeds, rev) ==
    [kind |-> "go", imports |-> imports, embeds |-> embeds, rev |-> rev]
GoModFile(module, require, replace, rev) ==
    [kind |-> "mod", module |-> module, require |-> require, replace |-> replace,
     rev |-> rev]
Blob(rev) == [kind |-> "blob", rev |-> rev]

Revs == 0..MaxRev

GoModName == <<"g", "o", ".", "m", "o", "d">>
GoSumName == <<"g", "o", ".", "s", "u", "m">>

\* the tree's places
DirM == <<"/", "m">>
DirC == <<"/", "m", "/", "c">>
DirL == <<"/", "m", "/", "l">>
DirQ == <<"/", "q">>
\* a directory of /m/c for embedding, and a directory nested in it
DirE == <<"/", "m", "/", "c", "/", "e">>
DirN == <<"/", "m", "/", "c", "/", "e", "/", "n">>
Dirs == {Root, DirM, DirC, DirL, DirQ, DirE, DirN}

PathMGoMod == <<"/", "m", "/", "g", "o", ".", "m", "o", "d">>
PathMGoSum == <<"/", "m", "/", "g", "o", ".", "s", "u", "m">>
PathA == <<"/", "m", "/", "c", "/", "a", ".", "g", "o">>
PathATest == <<"/", "m", "/", "c", "/", "a", "_", "t", "e", "s", "t", ".", "g", "o">>
PathUnderscore == <<"/", "m", "/", "c", "/", "_", "a", ".", "g", "o">>
PathDot == <<"/", "m", "/", "c", "/", ".", "a", ".", "g", "o">>
PathNotes == <<"/", "m", "/", "c", "/", "n", ".", "t", "x", "t">>
PathData == <<"/", "m", "/", "c", "/", "d", ".", "t", "x", "t">>
PathLink == <<"/", "m", "/", "c", "/", "b", ".", "g", "o">>
PathL == <<"/", "m", "/", "l", "/", "l", ".", "g", "o">>
PathLC == <<"/", "m", "/", "l", "/", "l", ".", "c">>
PathQGoMod == <<"/", "q", "/", "g", "o", ".", "m", "o", "d">>
PathQGoSum == <<"/", "q", "/", "g", "o", ".", "s", "u", "m">>
PathQ == <<"/", "q", "/", "q", ".", "g", "o">>
PathEA == <<"/", "m", "/", "c", "/", "e", "/", "a">>
PathEB == <<"/", "m", "/", "c", "/", "e", "/", "b">>
PathEC == <<"/", "m", "/", "c", "/", "e", "/", "c">>
PathNGoMod == <<"/", "m", "/", "c", "/", "e", "/", "n", "/", "g", "o", ".", "m", "o", "d">>
PathNX == <<"/", "m", "/", "c", "/", "e", "/", "n", "/", "x">>

FilePaths ==
    {PathMGoMod, PathMGoSum, PathA, PathATest, PathUnderscore, PathDot, PathNotes,
     PathData, PathLink, PathL, PathLC, PathQGoMod, PathQGoSum, PathQ,
     PathEA, PathEB, PathEC, PathNGoMod, PathNX}
AllPaths == Dirs \cup FilePaths

ParentOf == [p \in AllPaths |-> filepath_Dir(p)]

\* module and import paths
ModulePathM == <<"e", "x", ".", "i", "o", "/", "m">>
ModulePathQ == <<"e", "x", ".", "i", "o", "/", "q">>
ModulePathR == <<"r", ".", "i", "o", "/", "x">>
ImportFmt == <<"\"", "f", "m", "t", "\"">>
ImportHTTP == <<"\"", "n", "e", "t", "/", "h", "t", "t", "p", "\"">>
ImportC == <<"\"", "e", "x", ".", "i", "o", "/", "m", "/", "c", "\"">>
ImportL == <<"\"", "e", "x", ".", "i", "o", "/", "m", "/", "l", "\"">>
ImportQ == <<"\"", "e", "x", ".", "i", "o", "/", "q", "\"">>
ImportR == <<"\"", "r", ".", "i", "o", "/", "x", "\"">>

\* /m/go.mod: module ex.io/m; require r.io/x, ex.io/q; replace ex.io/q => ../q
ManifestM(rev) ==
    GoModFile(ModulePathM, <<ModulePathR, ModulePathQ>>,
              <<[old |-> ModulePathQ, new |-> <<".", ".", "/", "q">>, version |-> <<>>]>>, rev)
\* /q/go.mod: module ex.io/q
ManifestQ(rev) == GoModFile(ModulePathQ, <<>>, <<>>, rev)
\* /m/go.mod: module ex.io/m; require ex.io/q; replace ex.io/q => ./l
\* (the replacement is a directory of the module itself, with no go.mod)
ManifestMInPlace ==
    GoModFile(ModulePathM, <<ModulePathQ>>,
              <<[old |-> ModulePathQ, new |-> <<".", "/", "l">>, version |-> <<>>]>>, 0)
\* /m/go.mod as ManifestM(0), with one more line: require ex.io/m/l
\* (a module nested in ex.io/m's path is required and not replaced)
ManifestMShadow ==
    [ManifestM(0) EXCEPT !.require = Append(@, ModulePathM \o <<"/", "l">>)]
\* /m/go.mod as ManifestM(0), with one more line: require ex.io/m
ManifestMSelf == [ManifestM(0) EXCEPT !.require = Append(@, ModulePathM)]

ManifestsOfM ==
    {ManifestM(r) : r \in Revs} \cup {ManifestMInPlace, ManifestMShadow, ManifestMSelf}

PatternTxt == <<"*", ".", "t", "x", "t">>
PatternE == <<"e">>
PatternData == <<"d", ".", "t", "x", "t">>
PatternEA == <<"e", "/", "a">>
PatternAGo == <<"a", ".", "g", "o">>

ImportsOfA ==
    {<<ImportFmt>>, <<ImportFmt, ImportL>>, <<ImportFmt, ImportR>>,
     <<ImportL, ImportQ, ImportR>>}
\* /m/l/l.go importing /m/c closes a cycle, importing ex.io/q a diamond
ImportsOfL == {ImportC, ImportQ}
\* //go:embed lines of /m/c/a.go: none, one pattern, two patterns that match
\* the same file (directly, or one of them through a directory), and a
\* pattern that matches a.go itself
EmbedsOfA ==
    {<<>>, <<PatternTxt>>, <<PatternE>>, <<PatternTxt, PatternData>>,
     <<PatternE, PatternEA>>, <<PatternAGo>>}

\* what each place may hold
Alternatives(p) ==
    CASE p = PathMGoMod -> {NoEntry} \cup {File(m) : m \in ManifestsOfM}
      [] p = PathQGoMod -> {NoEntry} \cup {File(ManifestQ(r)) : r \in Revs}
      [] p = PathA -> {File(GoSrc(i, e, 0)) : i \in ImportsOfA, e \in EmbedsOfA}
      [] p = PathL -> {File(GoSrc(<<ImportHTTP>>, <<>>, r)) : r \in Revs}
                      \cup {File(GoSrc(<<i>>, <<>>, 0)) : i \in ImportsOfL}
      [] p = PathQ -> {File(GoSrc(<<>>, <<>>, r)) : r \in Revs}
      [] p \in {PathATest, PathUnderscore, PathDot} ->
            {NoEntry} \cup {File(GoSrc(<<ImportFmt>>, <<>>, r)) : r \in Revs}
      [] p = PathLink -> {NoEntry, Irregular, File(GoSrc(<<>>, <<>>, 0))}
      [] OTHER -> {NoEntry} \cup {File(Blob(r)) : r \in Revs}

\* the trees a computation may start from; /m/c/e holds the regular files
\* `embeddable` and the nested module /m/c/e/n
Tree(a, sums, litter, embeddable) ==
    [p \in AllPaths |->
        CASE p \in Dirs -> DirEntry
          [] p = PathMGoMod -> File(ManifestM(0))
          [] p = PathQGoMod -> File(ManifestQ(0))
          [] p \in {PathMGoSum, PathQGoSum} -> IF sums THEN File(Blob(0)) ELSE NoEntry
          [] p = PathA -> a
          [] p = PathL -> File(GoSrc(<<ImportHTTP>>, <<>>, 0))
          [] p = PathQ -> File(GoSrc(<<>>, <<>>, 0))
          [] p \in {PathLC, PathData, PathNGoMod, PathNX} -> File(Blob(0))
          [] p \in {PathEA, PathEB, PathEC} ->
                IF p \in embeddable THEN File(Blob(0)) ELSE NoEntry
          [] p \in {PathATest, PathUnderscore, PathDot} ->
                IF litter THEN File(GoSrc(<<ImportFmt>>, <<>>, 0)) ELSE NoEntry
          [] p = PathLink -> IF litter THEN Irregular ELSE NoEntry
          [] OTHER -> IF litter THEN File(Blob(0)) ELSE NoEntry]

InitialTrees ==
    {Tree(a, sums, litter, {PathEA, PathEB, PathEC}) :
        a \in {File(GoSrc(<<ImportFmt>>, <<>>, 0)),
               File(GoSrc(<<ImportL, ImportQ, ImportR>>, <<PatternTxt>>, 0))},
        sums \in BOOLEAN, litter \in BOOLEAN}
    \cup {Tree(File(GoSrc(<<ImportFmt>>, <<PatternE>>, 0)), sums, FALSE, embeddable) :
            sums \in BOOLEAN, embeddable \in {{}, {PathEA, PathEB, PathEC}}}

(***************************************************************************)
(* parseCLI: the compiler flags and the tracked environment.               *)
(***************************************************************************)
\* values a string flag or an environment variable is given
Values == {<<"a">>, <<"xFE">>, <<"xFF">>}

\* the command lines: -race, -gcflags and -ldflags of the flags parseCLI knows
CommandLines == [race : BOOLEAN, gcflags : Values \cup {<<>>}, ldflags : Values \cup {<<>>}]

EnvCC == <<"C", "C">>
EnvGOOS == <<"G", "O", "O", "S">>
EnvHOME == <<"H", "O", "M", "E">>
\* of the variables parseCLI looks up, in the order it looks them up
TrackedEnv == <<EnvCC, EnvGOOS>>
EnvNames == {EnvCC, EnvGOOS, EnvHOME}

\* Go maps are kept as sequences of <<key, value>> with distinct keys, in
\* the order the keys were first stored
MapHas(m, k) == \E i \in DOMAIN m : m[i][1] = k
MapGet(m, k) == m[CHOOSE i \in DOMAIN m : m[i][1] = k][2]
MapPut(m, k, v) ==
    IF MapHas(m, k) THEN [i \in DOMAIN m |-> IF m[i][1] = k THEN <<k, v>> ELSE m[i]]
    ELSE Append(m, <<k, v>>)
MapKeys(m) == {m[i][1] : i \in DOMAIN m}
MapDelete(m, k) == SelectSeq(m, LAMBDA e : e[1] # k)

\* an order of enumeration (of a directory, a map, an import list, the
\* environment): the natural order rotated, forwards or backwards
Orders == [rot : 0..MaxRot, rev : BOOLEAN]

Enumerate(s, o) ==
    LET n == Len(s)
        rotated == [i \in 1..n |-> s[((i - 1 + o.rot) % n) + 1]]
    IN IF o.rev THEN [i \in 1..n |-> rotated[n + 1 - i]] ELSE rotated

\* os.LookupEnv
LookupEnv(env, name) ==
    IF MapHas(env, name) THEN [exists |-> TRUE, val |-> MapGet(env, name)]
    ELSE [exists |-> FALSE, val |-> <<>>]

\* parseCLI: out.compilerFlags
parseCLI_compilerFlags(cl) ==
    (IF cl.race THEN <<<<"-", "r", "a", "c", "e">>>> ELSE <<>>)
    \o (IF cl.gcflags # <<>> THEN <<<<"-", "g", "c", "f", "l", "a", "g", "s">>, cl.gcflags>> ELSE <<>>)
    \o (IF cl.ldflags # <<>> THEN <<<<"-", "l", "d", "f", "l", "a", "g", "s">>, cl.ldflags>> ELSE <<>>)

\* parseCLI: out.compilerEnv
RECURSIVE TrackEnv(_, _, _)
TrackEnv(names, env, out) ==
    IF names = <<>> THEN out
    ELSE LET l == LookupEnv(env, Head(names))
         IN TrackEnv(Tail(names), env,
                     IF l.exists THEN MapPut(out, Head(names), l.val) ELSE out)

parseCLI_compilerEnv(env) == TrackEnv(TrackedEnv, env, <<>>)

(***************************************************************************)
(* checksum.go                                                             *)
(***************************************************************************)
\* hex(sha256(x)), taken to be injective
Sha256(x) == [sha256 |-> x]

\* parseContext; err is "" until the computation fails
NewParseContext == [checksums |-> <<>>, packages |-> {}, modules |-> <<>>, err |-> ""]

NoModule == [path |-> <<>>, packages |-> <<>>]

Fail(pctx, err) == [pctx EXCEPT !.err = err]

Lstat(path) == IF path \in DOMAIN fs THEN fs[path] ELSE NoEntry
Exists(path) == Lstat(path).type # "none"

\* os.ReadDir: the names in the directory, sorted
ReadDir(dir) ==
    SortStrings({filepath_Base(p) :
                    p \in {q \in AllPaths \ {Root} : ParentOf[q] = dir /\ Exists(q)}})

\* faulty variant of addChecksum: a hash already there is overwritten
addChecksumOverwrites(pctx, filename) ==
    IF ~Exists(filename) THEN Fail(pctx, "ENOENT")
    ELSE IF Lstat(filename).type # "file" THEN Fail(pctx, "read error")
    ELSE [pctx EXCEPT !.checksums = MapPut(@, filename, Sha256(Lstat(filename).data))]

addChecksum(pctx, filename) ==
    IF MapHas(pctx.checksums, filename) THEN Fail(pctx, Panic)
    ELSE IF ~Exists(filename) THEN Fail(pctx, "ENOENT")
    ELSE IF Lstat(filename).type # "file" THEN Fail(pctx, "read error")
    ELSE [pctx EXCEPT !.checksums = Append(@, <<filename, Sha256(Lstat(filename).data)>>)]

stripPackageQuotes(p) == TrimPrefix(TrimSuffix(p, <<"\"">>), <<"\"">>)

RECURSIVE AddRequires(_, _)
AddRequires(packages, require) ==
    IF require = <<>> THEN packages
    ELSE AddRequires(MapPut(packages, Head(require), <<>>), Tail(require))

\* faulty variant of AddReplaces: the replace directives are not read
AddReplacesNone(packages, replace, dir) == packages

RECURSIVE AddReplaces(_, _, _)
AddReplaces(packages, replace, dir) ==
    IF replace = <<>> THEN packages
    ELSE LET r == Head(replace)
         IN IF r.version # <<>> THEN AddReplaces(packages, Tail(replace), dir)
            ELSE IF HasPrefix(r.new, <<"/">>)
                 THEN AddReplaces(MapPut(packages, stripPackageQuotes(r.old), r.new),
                                  Tail(replace), dir)
                 ELSE AddReplaces(MapPut(packages, stripPackageQuotes(r.old),
                                         filepath_Join(dir, r.new)),
                                  Tail(replace), dir)

\* out.packages: the module's own path, its requirements, its local replacements
ModulePackages(f, dir) ==
    AddReplaces(AddRequires(<<<<f.module, dir>>>>, f.require), f.replace, dir)

\* go.sum is hashed when there is one
HashGoSum(hashed, withSum) == IF withSum.err = "ENOENT" THEN hashed ELSE withSum

HashManifests(hashed, dir) ==
    IF hashed.err # "" THEN hashed
    ELSE HashGoSum(hashed, addChecksum(hashed, filepath_Join(dir, GoSumName)))

ParsedModule(hashed, out) ==
    [pctx |-> hashed, info |-> IF hashed.err # "" THEN NoModule ELSE out]

ParseGoMod(pctx, dir, e) ==
    IF e.type # "file" \/ e.data.kind # "mod"
    THEN [pctx |-> Fail(pctx, "failed to parse module"), info |-> NoModule]
    ELSE ParsedModule(HashManifests(addChecksum(pctx, filepath_Join(dir, GoModName)), dir),
                      [path |-> e.data.module, packages |-> ModulePackages(e.data, dir)])

parseModule(pctx, dir) == ParseGoMod(pctx, dir, Lstat(filepath_Join(dir, GoModName)))

RECURSIVE PutAll(_, _, _)
PutAll(m, keys, v) ==
    IF keys = <<>> THEN m ELSE PutAll(MapPut(m, Head(keys), v), Tail(keys), v)

Climbed(r, uncachedDirs) ==
    [pctx |-> r.pctx, info |-> r.info, uncachedDirs |-> uncachedDirs]

\* findModule's first loop: up the directories to a cached module or a go.mod
RECURSIVE findModuleClimb(_, _, _)
findModuleClimb(pctx, dir, uncachedDirs) ==
    IF MapHas(pctx.modules, dir)
    THEN [pctx |-> pctx, info |-> MapGet(pctx.modules, dir), uncachedDirs |-> uncachedDirs]
    ELSE IF Exists(filepath_Join(dir, GoModName))
    THEN Climbed(parseModule(pctx, dir), Append(uncachedDirs, dir))
    ELSE IF filepath_Dir(dir) = Root
    THEN [pctx |-> Fail(pctx, "failed to find go.mod"), info |-> NoModule,
          uncachedDirs |-> uncachedDirs]
    ELSE findModuleClimb(pctx, filepath_Dir(dir), Append(uncachedDirs, dir))

\* faulty variant of CacheModule: the directories climbed are not cached
CacheModuleNoBackfill(r) ==
    IF r.pctx.err # "" THEN [pctx |-> r.pctx, info |-> NoModule]
    ELSE [pctx |-> r.pctx, info |-> r.info]

\* findModule's second loop: the directories climbed are cached
CacheModule(r) ==
    IF r.pctx.err # "" THEN [pctx |-> r.pctx, info |-> NoModule]
    ELSE [pctx |-> [r.pctx EXCEPT !.modules = PutAll(@, r.uncachedDirs, r.info)],
          info |-> r.info]

findModule(pctx, dir) == CacheModule(findModuleClimb(pctx, dir, <<>>))

\* srcRE: \.(go|s|S|c|cc|cpp|cxx|m|h|hh|hpp|hxx|f|F|for|f90)$
SrcSuffixes ==
    {<<".", "g", "o">>, <<".", "s">>, <<".", "S">>, <<".", "c">>, <<".", "c", "c">>, <<".", "c", "p", "p">>, <<".", "c", "x", "x">>, <<".", "m">>, <<".", "h">>, <<".", "h", "h">>,
     <<".", "h", "p", "p">>, <<".", "h", "x", "x">>, <<".", "f">>, <<".", "F">>, <<".", "f", "o", "r">>, <<".", "f", "9", "0">>}
srcRE(name) == \E x \in SrcSuffixes : HasSuffix(name, x)

\* faulty variant of packageFile: test files are taken for sources
packageFileWithTests(name) ==
    IF HasPrefix(name, <<"_">>) \/ HasPrefix(name, <<".">>) THEN FALSE ELSE srcRE(name)

packageFile(name) ==
    IF HasSuffix(name, <<"_", "t", "e", "s", "t", ".", "g", "o">>) THEN FALSE
    ELSE IF HasPrefix(name, <<"_">>) \/ HasPrefix(name, <<".">>) THEN FALSE
    ELSE srcRE(name)

\* faulty variant of stdlibPackageRE: ^\"[a-z]+"$, a single segment
stdlibSingleSegment(v) ==
    /\ Len(v) >= 3
    /\ v[1] = "\"" /\ v[Len(v)] = "\""
    /\ \A i \in 2..(Len(v) - 1) : v[i] \in Lower

\* stdlibPackageRE: ^\"[a-z]+(/|")
stdlibPackageRE(v) ==
    /\ Len(v) >= 3
    /\ v[1] = "\""
    /\ \E k \in 2..(Len(v) - 1) :
          /\ \A i \in 2..k : v[i] \in Lower
          /\ v[k + 1] \in {"/", "\""}

packageInsideOf(path, base) == base = path \/ HasPrefix(path, base \o <<"/">>)

dirForPackageInModule(modulePath, moduleDir, importPath) ==
    IF modulePath = importPath THEN moduleDir
    ELSE filepath_Join(moduleDir, TrimPrefix(importPath, modulePath \o <<"/">>))

\* faulty variant of LongestMatch: the first entry that matches is taken
RECURSIVE FirstMatch(_, _, _)
FirstMatch(entries, importPath, longest) ==
    IF entries = <<>> THEN longest
    ELSE IF packageInsideOf(importPath, Head(entries)[1]) THEN Head(entries)
    ELSE FirstMatch(Tail(entries), importPath, longest)

\* the loop over moduleInfo.packages: <<longestMatchedPath, longestMatchedPathDir>>
RECURSIVE LongestMatch(_, _, _)
LongestMatch(entries, importPath, longest) ==
    IF entries = <<>> THEN longest
    ELSE LET e == Head(entries)
         IN LongestMatch(Tail(entries), importPath,
                         IF packageInsideOf(importPath, e[1]) /\ Len(e[1]) > Len(longest[1])
                         THEN e ELSE longest)

RECURSIVE resolveImport(_, _, _, _, _)

\* what one turn of resolveImport's loop makes of the longest match: the
\* package is outside of every module, remote, in a directory of the module,
\* or to be looked for from the directory of another module
Turn(info, longest, importPath) ==
    IF longest[1] = <<>> THEN [kind |-> "outside", dir |-> <<>>]
    ELSE IF longest[2] = <<>> THEN [kind |-> "remote", dir |-> <<>>]
    ELSE IF longest[1] = info.path
    THEN [kind |-> "local", dir |-> dirForPackageInModule(longest[1], longest[2], importPath)]
    ELSE [kind |-> "hop", dir |-> longest[2]]

\* the returns of resolveImport, and its next turn
Resolved(m, t, importPath, o, hops) ==
    CASE t.kind = "outside" ->
            [pctx |-> Fail(m.pctx, "package is outside of every module"), dir |-> <<>>,
             local |-> FALSE]
      [] t.kind = "remote" -> [pctx |-> m.pctx, dir |-> <<>>, local |-> FALSE]
      [] t.kind = "local" -> [pctx |-> m.pctx, dir |-> t.dir, local |-> TRUE]
      [] OTHER ->
            IF hops = 0
            THEN [pctx |-> Fail(m.pctx, "resolveImport does not return"), dir |-> <<>>,
                  local |-> FALSE]
            ELSE resolveImport(m.pctx, t.dir, importPath, o, hops - 1)

\* one turn of resolveImport's loop, after findModule and the longest match
ResolveIn(m, longest, importPath, o, hops) ==
    IF m.pctx.err # "" THEN [pctx |-> m.pctx, dir |-> <<>>, local |-> FALSE]
    ELSE Resolved(m, Turn(m.info, longest, importPath), importPath, o, hops)

ResolveFrom(m, importPath, o, hops) ==
    ResolveIn(m, LongestMatch(Enumerate(m.info.packages, o), importPath, <<<<>>, <<>>>>),
              importPath, o, hops)

resolveImport(pctx, dir, importPath, o, hops) ==
    ResolveFrom(findModule(pctx, dir), importPath, o, hops)

(***************************************************************************)
(* embed.go: resolveEmbed, for patterns that are a file name or "*" and a  *)
(* suffix, with or without the "all:" prefix.                              *)
(***************************************************************************)
Range(s) == {s[i] : i \in DOMAIN s}

\* path.Match of one path element
Match(glob, name) ==
    IF glob # <<>> /\ Head(glob) = "*" THEN HasSuffix(name, Tail(glob)) ELSE glob = name

\* filepath.Glob(pkgdir + "/" + glob)
Glob(pkgdir, glob) ==
    IF \E i \in DOMAIN glob : glob[i] = "*"
    THEN {filepath_Join(pkgdir, n) : n \in {x \in Range(ReadDir(pkgdir)) : Match(glob, x)}}
    ELSE IF Exists(filepath_Join(pkgdir, glob)) THEN {filepath_Join(pkgdir, glob)} ELSE {}

\* module.CheckFilePath fails, or a version control directory
isBadEmbedName(name) == name \in {<<>>, <<".", "b", "z", "r">>, <<".", "h", "g">>, <<".", "g", "i", "t">>, <<".", "s", "v", "n">>}

\* the paths from path up to, and without, root
RECURSIVE Below(_, _)
Below(path, root) ==
    IF ~HasPrefix(path, root \o <<"/">>) THEN {}
    ELSE {path} \cup Below(filepath_Dir(path), root)

\* faulty variant of Walk: directories that hold a go.mod are walked too
WalkIntoModules(file, all) ==
    {p \in AllPaths :
        /\ Lstat(p).type = "file"
        /\ HasPrefix(p, file \o <<"/">>)
        /\ \A d \in Below(p, file) :
              /\ ~isBadEmbedName(filepath_Base(d))
              /\ Head(filepath_Base(d)) \in {".", "_"} => all
        /\ \A d \in Below(filepath_Dir(p), file) \cup {file} : Lstat(d).type = "dir"}

\* fsysWalk(file, ...): the regular files the walk function counts
Walk(file, all) ==
    {p \in AllPaths :
        /\ Lstat(p).type = "file"
        /\ HasPrefix(p, file \o <<"/">>)
        /\ \A d \in Below(p, file) :
              /\ ~isBadEmbedName(filepath_Base(d))
              /\ Head(filepath_Base(d)) \in {".", "_"} => all
        /\ \A d \in Below(filepath_Dir(p), file) \cup {file} :
              /\ Lstat(d).type = "dir"
              /\ ~Exists(filepath_Join(d, GoModName))}

\* strTrimFilePathPrefix(file, pkgdir)
Rel(file, pkgdir) == SubSeq(file, Len(pkgdir) + 2, Len(file))

\* the files a pattern's matches list
Listed(pkgdir, match, all) ==
    {Rel(f, pkgdir) : f \in {x \in match : Lstat(x).type = "file"}}
    \cup UNION {{Rel(f, pkgdir) : f \in Walk(d, all)} :
                    d \in {x \in match : Lstat(x).type = "dir"}}

\* faulty variant of EmbedMatches: a directory without embeddable files and
\* a pattern without matches are let through
EmbedMatchesLenient(pkgdir, match, all, list) ==
    IF \E f \in match : \E d \in Below(f, pkgdir) : Exists(filepath_Join(d, GoModName))
    THEN [files |-> {}, err |-> "cannot embed: in different module"]
    ELSE IF \E f \in match : \E d \in Below(f, pkgdir) : isBadEmbedName(filepath_Base(d))
    THEN [files |-> {}, err |-> "cannot embed: invalid name"]
    ELSE IF \E f \in match : Lstat(f).type \notin {"file", "dir"}
    THEN [files |-> {}, err |-> "cannot embed irregular file"]
    ELSE [files |-> list, err |-> ""]

\* what resolveEmbed's loop makes of the matches of one pattern
EmbedMatches(pkgdir, match, all, list) ==
    IF \E f \in match : \E d \in Below(f, pkgdir) : Exists(filepath_Join(d, GoModName))
    THEN [files |-> {}, err |-> "cannot embed: in different module"]
    ELSE IF \E f \in match : \E d \in Below(f, pkgdir) : isBadEmbedName(filepath_Base(d))
    THEN [files |-> {}, err |-> "cannot embed: invalid name"]
    ELSE IF \E f \in match : Lstat(f).type \notin {"file", "dir"}
    THEN [files |-> {}, err |-> "cannot embed irregular file"]
    ELSE IF \E d \in match : Lstat(d).type = "dir" /\ Walk(d, all) = {}
    THEN [files |-> {}, err |-> "cannot embed directory: contains no embeddable files"]
    ELSE IF list = {} THEN [files |-> {}, err |-> "no matching files found"]
    ELSE [files |-> list, err |-> ""]

EmbedGlob(pkgdir, match, all) == EmbedMatches(pkgdir, match, all, Listed(pkgdir, match, all))

\* one pattern of resolveEmbed's loop: the files it lists, or the error
EmbedPattern(pkgdir, pattern) ==
    EmbedGlob(pkgdir, Glob(pkgdir, TrimPrefix(pattern, <<"a", "l", "l", ":">>)),
              HasPrefix(pattern, <<"a", "l", "l", ":">>))

EmbedBoth(one, rest) ==
    IF one.err # "" THEN one
    ELSE IF rest.err # "" THEN rest
    ELSE [files |-> one.files \cup rest.files, err |-> ""]

RECURSIVE resolveEmbed(_, _)
resolveEmbed(pkgdir, patterns) ==
    IF patterns = <<>> THEN [files |-> {}, err |-> ""]
    ELSE EmbedBoth(EmbedPattern(pkgdir, Head(patterns)), resolveEmbed(pkgdir, Tail(patterns)))

(***************************************************************************)
(* parsePackage: the walk over a package directory and what it imports.    *)
(***************************************************************************)
RECURSIVE AddEmbedded(_, _, _)
AddEmbedded(pctx, dir, files) ==
    IF files = <<>> \/ pctx.err # "" THEN pctx
    ELSE AddEmbedded(addChecksum(pctx, filepath_Join(dir, Head(files))), dir, Tail(files))

RECURSIVE parsePackage(_, _, _)
RECURSIVE ScanImports(_, _, _, _)
RECURSIVE ScanEntries(_, _, _, _, _)

\* an import that is not the standard library's, resolved
Imported(r, dir, imports, o) ==
    IF r.pctx.err # "" THEN r.pctx
    ELSE IF ~r.local THEN ScanImports(r.pctx, dir, imports, o)
    ELSE ScanImports(parsePackage(r.pctx, r.dir, o), dir, imports, o)

\* the loop over node.Imports
ScanImports(pctx, dir, imports, o) ==
    IF imports = <<>> \/ pctx.err # "" THEN pctx
    ELSE IF stdlibPackageRE(Head(imports)) THEN ScanImports(pctx, dir, Tail(imports), o)
    ELSE Imported(resolveImport(pctx, dir, stripPackageQuotes(Head(imports)), o, MaxHops),
                  dir, Tail(imports), o)

\* a regular file that packageFile accepts: hashed, and parsed if it is a .go file
ScanFile(hashed, dir, name, de, names, embedPatterns, o) ==
    IF ~HasSuffix(name, <<".", "g", "o">>) THEN ScanEntries(hashed, dir, names, embedPatterns, o)
    ELSE IF de.data.kind # "go"
    THEN [pctx |-> Fail(hashed, "failed to parse"), embedPatterns |-> embedPatterns]
    ELSE ScanEntries(ScanImports(hashed, dir, Enumerate(de.data.imports, o), o),
                     dir, names, embedPatterns \o de.data.embeds, o)

ScanEntry(pctx, dir, name, de, names, embedPatterns, o) ==
    IF de.type # "file" \/ ~packageFile(name)
    THEN ScanEntries(pctx, dir, names, embedPatterns, o)
    ELSE ScanFile(addChecksum(pctx, filepath_Join(dir, name)), dir, name, de, names,
                  embedPatterns, o)

\* the loop over the directory's entries
ScanEntries(pctx, dir, names, embedPatterns, o) ==
    IF names = <<>> \/ pctx.err # "" THEN [pctx |-> pctx, embedPatterns |-> embedPatterns]
    ELSE ScanEntry(pctx, dir, Head(names), Lstat(filepath_Join(dir, Head(names))),
                   Tail(names), embedPatterns, o)

\* the end of parsePackage: the embedded files
Embedded(pctx, dir, embed) ==
    IF embed.err # "" THEN Fail(pctx, embed.err)
    ELSE AddEmbedded(pctx, dir, SortStrings(embed.files))

\* faulty variant of Scanned: the files are hashed pattern by pattern
RECURSIVE EmbeddedEach(_, _, _)
EmbeddedEach(pctx, dir, patterns) ==
    IF patterns = <<>> \/ pctx.err # "" THEN pctx
    ELSE EmbeddedEach(Embedded(pctx, dir, resolveEmbed(dir, <<Head(patterns)>>)), dir,
                      Tail(patterns))

ScannedPerPattern(scanned, dir) ==
    IF scanned.pctx.err # "" THEN scanned.pctx
    ELSE EmbeddedEach(scanned.pctx, dir, scanned.embedPatterns)

Scanned(scanned, dir) ==
    IF scanned.pctx.err # "" THEN scanned.pctx
    ELSE Embedded(scanned.pctx, dir, resolveEmbed(dir, scanned.embedPatterns))

InModule(m, dir, o) ==
    IF m.pctx.err # "" THEN m.pctx
    ELSE IF Lstat(dir).type # "dir" THEN Fail(m.pctx, "ReadDir failed")
    ELSE Scanned(ScanEntries(m.pctx, dir, Enumerate(ReadDir(dir), o), <<>>, o), dir)

\* faulty variant of parsePackage: the enclosing module is not looked for
\* before the directory is read
parsePackageNoModule(pctx, dir, o) ==
    IF dir \in pctx.packages THEN pctx
    ELSE InModule([pctx |-> [pctx EXCEPT !.packages = @ \cup {dir}], info |-> NoModule],
                  dir, o)

\* faulty variant of parsePackage: the directory is not marked as visited
parsePackageNoMark(pctx, dir, o) ==
    IF dir \in pctx.packages THEN pctx
    ELSE InModule(findModule(pctx, dir), dir, o)

parsePackage(pctx, dir, o) ==
    IF dir \in pctx.packages THEN pctx
    ELSE InModule(findModule([pctx EXCEPT !.packages = @ \cup {dir}], dir), dir, o)

packageSourceChecksums(dir, o) == parsePackage(NewParseContext, dir, o)

(***************************************************************************)
(* json.Marshal([]any{filesChecksums, compilerFlags, compilerEnv})         *)
(***************************************************************************)
\* a JSON string: a byte that is not valid UTF-8 becomes the replacement rune
JsonString(s) == [i \in DOMAIN s |-> IF s[i] \in InvalidUTF8 THEN "uFFFD" ELSE s[i]]

\* a JSON object: the map's keys sorted, each with its value
RECURSIVE SortByKey(_)
SortByKey(m) ==
    IF m = <<>> THEN <<>>
    ELSE LET k == CHOOSE a \in MapKeys(m) : \A b \in MapKeys(m) \ {a} : StrLess(a, b)
         IN <<<<k, MapGet(m, k)>>>> \o SortByKey(MapDelete(m, k))

\* the document with the objects' members in the order given; as an encoder
\* it is a faulty variant of json_Marshal, which sorts them by key first
MarshalInMapOrder(filesChecksums, compilerFlags, compilerEnv) ==
    <<[i \in DOMAIN filesChecksums |->
            <<JsonString(filesChecksums[i][1]), filesChecksums[i][2]>>],
      [i \in DOMAIN compilerFlags |-> JsonString(compilerFlags[i])],
      [i \in DOMAIN compilerEnv |->
            <<JsonString(compilerEnv[i][1]), JsonString(compilerEnv[i][2])>>]>>

json_Marshal(filesChecksums, compilerFlags, compilerEnv) ==
    MarshalInMapOrder(SortByKey(filesChecksums), compilerFlags, SortByKey(compilerEnv))

NoResult ==
    [ok |-> FALSE, fp |-> Sha256(<<>>), files |-> {}, pkgs |-> {},
     order |-> <<>>, err |-> ""]

\* what checksum() returns, and with it what the walk went through
Outcome(pctx, compilerFlags, compilerEnv) ==
    IF pctx.err # "" THEN [NoResult EXCEPT !.err = pctx.err]
    ELSE [ok |-> TRUE, err |-> "",
          fp |-> Sha256(json_Marshal(pctx.checksums, compilerFlags, compilerEnv)),
          files |-> MapKeys(pctx.checksums),
          pkgs |-> pctx.packages,
          order |-> [i \in DOMAIN pctx.checksums |-> pctx.checksums[i][1]]]

checksum(dir, compilerFlags, compilerEnv, o) ==
    Outcome(packageSourceChecksums(dir, o), compilerFlags, compilerEnv)

(***************************************************************************)
(* Two computations of the fingerprint of /m/c, with one change of the     *)
(* inputs (or none) in between.                                            *)
(***************************************************************************)
NoChange == [what |-> "", path |-> <<>>, name |-> <<>>, before |-> NoEntry,
             after |-> NoEntry]

PlainCommandLine == [race |-> FALSE, gcflags |-> <<>>, ldflags |-> <<>>]
RichCommandLine == [race |-> TRUE, gcflags |-> <<"a">>, ldflags |-> <<"xFF">>]
RichEnvironment == <<<<EnvCC, <<"xFF">>>>, <<EnvGOOS, <<"a">>>>, <<EnvHOME, <<"a">>>>>>

FIdle ==
    /\ fs = Tree(File(GoSrc(<<ImportFmt>>, <<>>, 0)), FALSE, FALSE, {})
    /\ cli = PlainCommandLine
    /\ environ = <<>>
    /\ phase = "idle"
    /\ r1 = NoResult
    /\ r2 = NoResult
    /\ ch = NoChange

FInit ==
    /\ fs \in InitialTrees
    /\ \/ cli = PlainCommandLine /\ environ = <<>>
       \/ cli = RichCommandLine /\ environ = RichEnvironment
    /\ phase = "input"
    /\ r1 = NoResult
    /\ r2 = NoResult
    /\ ch = NoChange

\* gr <flags> /m/c
Fingerprint(o) ==
    checksum(DirC, parseCLI_compilerFlags(cli),
             parseCLI_compilerEnv(Enumerate(environ, o)), o)

Compute ==
    /\ phase = "input"
    /\ \E o \in Orders : r1' = Fingerprint(o)
    /\ phase' = "ran"
    /\ UNCHANGED <<fs, cli, environ, r2, ch, ovars, cvars>>

ChangeNothing ==
    /\ phase = "ran"
    /\ ch' = [NoChange EXCEPT !.what = "nothing"]
    /\ phase' = "changed"
    /\ UNCHANGED <<fs, cli, environ, r1, r2, ovars, cvars>>

\* a file appears, disappears, or gets another content or type
ChangeFile ==
    /\ phase = "ran"
    /\ \E p \in FilePaths : \E e \in Alternatives(p) \ {fs[p]} :
          /\ fs' = [fs EXCEPT ![p] = e]
          /\ ch' = [NoChange EXCEPT !.what = "file", !.path = p, !.before = fs[p],
                                    !.after = e]
    /\ phase' = "changed"
    /\ UNCHANGED <<cli, environ, r1, r2, ovars, cvars>>

ChangeCommandLine ==
    /\ phase = "ran"
    /\ \E c \in CommandLines \ {cli} : cli' = c
    /\ ch' = [NoChange EXCEPT !.what = "flags"]
    /\ phase' = "changed"
    /\ UNCHANGED <<fs, environ, r1, r2, ovars, cvars>>

\* a variable is set, set to another value, or unset
ChangeEnvironment ==
    /\ phase = "ran"
    /\ \E n \in EnvNames :
          /\ \/ \E v \in Values \cup {<<>>} :
                   /\ ~(MapHas(environ, n) /\ MapGet(environ, n) = v)
                   /\ environ' = MapPut(environ, n, v)
             \/ /\ MapHas(environ, n)
                /\ environ' = MapDelete(environ, n)
          /\ ch' = [NoChange EXCEPT !.what = "env", !.name = n]
    /\ phase' = "changed"
    /\ UNCHANGED <<fs, cli, r1, r2, ovars, cvars>>

Recompute ==
    /\ phase = "changed"
    /\ \E o \in Orders : r2' = Fingerprint(o)
    /\ phase' = "done"
    /\ UNCHANGED <<fs, cli, environ, r1, ch, ovars, cvars>>

\* realMain with the outcome of the second computation: a failed checksum()
\* is a return of 255, a panic in it ends the process, a fingerprint leads on
\* to the first probe
Launch ==
    /\ phase = "done"
    /\ MayStart(1)
    /\ IF r2.ok
       THEN /\ pkg' = [pkg EXCEPT ![1] = 1]
            /\ sum' = [sum EXCEPT ![1] = 1]
            /\ pc' = [pc EXCEPT ![1] = "probe"]
            /\ UNCHANGED <<exit, hist>>
       ELSE /\ IF r2.err = Panic THEN Die(1, StatusPanic, "panic", hist[1])
               ELSE Die(1, StatusFatal, "checksum", hist[1])
            /\ UNCHANGED <<pkg, sum>>
    /\ runs' = runs + 1
    /\ phase' = "launched"
    /\ UNCHANGED <<wstatus, cvars, fs, cli, environ, r1, r2, ch>>

FNext ==
    \/ Compute
    \/ ChangeNothing
    \/ ChangeFile
    \/ ChangeCommandLine
    \/ ChangeEnvironment
    \/ Recompute
    \/ Launch

(***************************************************************************)
(* The specifications.                                                     *)
(***************************************************************************)
Init == OInit /\ FIdle

Next == ONext

Spec == Init /\ [][Next]_vars

\* the orchestrator with crashes and with deletions by others.  Fairness: a
\* process that can take a step of realMain other than the wait for the lock
\* takes one (the scheduler runs it, every compiler run ends, the parent
\* collects a terminated process), and flock(LOCK_EX) serves every waiter:
\* one that finds the lock free again and again gets it.  A new invocation, a
\* crash and an error of flock need not happen.
Running(i) ==
    \/ TryExec(i) \/ OpenDir(i)
    \/ Cleanup(i) \/ CleanupFail(i)
    \/ BuildWrite(i) \/ BuildOK(i) \/ BuildFail(i)
    \/ TryExecAfterBuild(i) \/ ProgExit(i) \/ Reap(i)

Step(i) == Running(i) \/ Flock(i) \/ FlockFail(i)

\* invocations started in all under SpecEnv
MaxLiveRuns == 3

LNext ==
    \E i \in Procs :
        \/ runs < MaxLiveRuns /\ StartOK(i)
        \/ runs < MaxLiveRuns /\ StartFail(i)
        \/ Step(i)
        \/ CleanupRacing(i)
        \/ Crash(i)

Fairness == \A i \in Procs : WF_vars(Running(i)) /\ SF_vars(Flock(i))

SpecEnv == Init /\ [][LNext]_vars /\ Fairness

FPInit == OInit /\ FInit

SpecFP == FPInit /\ [][FNext]_vars

(***************************************************************************)
(* Claims about the cache store and the orchestrator.                      *)
(***************************************************************************)
Entries(p) == Present(cache[p])

\* the invocations between flock and the close of the directory handle
InUpdate(p) == {i \in Procs : pkg[i] = p /\ pc[i] \in {"cleanup", "build", "writing"}}

\* an update of p is between its cleanup and the end of its compiler run
Compiling(p) == \E i \in Procs : pkg[i] = p /\ pc[i] \in {"build", "writing"}

\* j is the one invocation started since its package's last build was stored,
\* and computed the fingerprint of that build
SecondRun(j) ==
    /\ pkg[j] # 0
    /\ hist[j].second
    /\ quiet[pkg[j]].n = 1
    /\ quiet[pkg[j]].sum = sum[j]

\* C1 (cache reuse): the invocation that follows a stored build of (P, F),
\* computes F again and has P to itself executes the cached binary on its
\* first probe: it probes once, never takes the lock, never cleans up and never
\* runs the compiler.
C1_CacheReuse ==
    \A j \in Procs :
        SecondRun(j) =>
            /\ pc[j] \in {"probe", "running", "exited"}
            /\ hist[j].probes <= 1
            /\ ~hist[j].locked /\ ~hist[j].cleaned /\ ~hist[j].compiled
            /\ pc[j] = "exited" => hist[j].cause = "prog"

C1_Witness ==
    \E j \in Procs : SecondRun(j) /\ pc[j] = "exited" /\ wstatus[j] = 0

\* C2 (exit-status passthrough): whatever status the wrapped program exits
\* with, after a cache hit or after a rebuild, is the status of the process.
C2_ExitStatusPassthrough ==
    \A i \in Procs :
        (pc[i] = "exited" /\ wstatus[i] # NoStatus) => exit[i] = wstatus[i]

C2_Witness ==
    \E i \in Procs :
        pc[i] = "exited" /\ wstatus[i] = 3 /\ exit[i] = 3 /\ hist[i].compiled

\* the builds of p so far all succeeded and had pairwise distinct fingerprints
Regular(p) == ~spoiled[p]

MtimesOf(p) == {cache[p][f].mtime : f \in Entries(p)}

\* C3 as the spec states it (retention bound): after N > 2 successful builds
\* of pairwise distinct fingerprints the directory holds exactly 2 entries,
\* the 2 most recently modified.
C3_RetentionExactlyTwo ==
    \A p \in Pkgs :
        (Regular(p) /\ ~Compiling(p) /\ mclock[p] > 2) =>
            /\ Cardinality(Entries(p)) = 2
            /\ MtimesOf(p) = {mclock[p] - 1, mclock[p]}

\* C3 as amended: cleanup runs before the build, so after N > 2 such builds
\* the directory holds exactly 3 entries: the newest build and the 2 built
\* before it, that is the 3 most recently modified.
C3_RetentionExactlyThree ==
    \A p \in Pkgs :
        (Regular(p) /\ ~Compiling(p) /\ mclock[p] > 2) =>
            /\ Cardinality(Entries(p)) = 3
            /\ MtimesOf(p) = {mclock[p] - 2, mclock[p] - 1, mclock[p]}

C3_Witness ==
    \E p \in Pkgs :
        /\ Regular(p) /\ ~Compiling(p) /\ mclock[p] = 4
        /\ Cardinality(Entries(p)) = 3

\* C4 (at most two previous versions): a cache directory never holds more
\* than three entries, that is at most two besides the most recently built
\* one, and while the compiler runs and has written nothing at most two exist.
C4_AtMostTwoPrevious ==
    \A p \in Pkgs :
        /\ Cardinality(Entries(p)) <= 3
        /\ \A f \in Entries(p) :
              cache[p][f].mtime = mclock[p] => Cardinality(Entries(p) \ {f}) <= 2
        /\ \A i \in Procs :
              (pkg[i] = p /\ pc[i] = "build") => Cardinality(Entries(p)) <= 2

C4_Witness ==
    \E p \in Pkgs, i \in Procs :
        /\ pkg[i] = p /\ pc[i] = "build" /\ hist[i].cleaned
        /\ Cardinality(Entries(p)) = 2 /\ mclock[p] = 3

\* C5 (scenario D): of two invocations for the same package and fingerprint
\* that both started on a cold cache, neither ends in a failed probe.
C5_ScenarioD ==
    \A i, j \in Procs :
        (/\ i # j /\ pkg[i] # 0 /\ pkg[i] = pkg[j] /\ sum[i] = sum[j]
         /\ hist[i].cold /\ hist[j].cold
         /\ starts[pkg[i]] = 2 /\ pc[i] = "exited")
        => hist[i].cause \notin {"probe", "probe2"}

\* C6 (no partial reads): whenever an invocation is about to probe, the entry
\* at its path is absent or fully written, and no entry is written a second
\* time.
C6_NoPartialRead ==
    /\ \A i \in Procs :
          pc[i] \in {"probe", "probe2"} => cache[pkg[i]][sum[i]].st # "partial"
    /\ \A p \in Pkgs, f \in Sums : cache[p][f].writes <= 1

\* C7 (mutual exclusion per package): at most one invocation is between
\* flock and the close of the handle for a package, and an invocation waits
\* for the lock only while one of its own package is there.
C7_MutexPerPackage ==
    /\ \A p \in Pkgs : Cardinality(InUpdate(p)) <= 1
    /\ \A i \in Procs :
          (pc[i] = "flock" /\ InUpdate(pkg[i]) = {}) => lock[LockKey(i)] = 0

C7_Witness ==
    \E i, j \in Procs :
        /\ pkg[i] # 0 /\ pkg[j] # 0 /\ pkg[i] # pkg[j]
        /\ pc[i] \in {"build", "writing"} /\ pc[j] \in {"build", "writing"}

(***************************************************************************)
(* Claims about the fingerprint.                                           *)
(***************************************************************************)
\* the embed patterns of the directory's sources
EmbedPatternsIn(dir) ==
    UNION {Range(fs[q].data.embeds) :
              q \in {x \in FilePaths : /\ ParentOf[x] = dir
                                      /\ fs[x].type = "file"
                                      /\ fs[x].data.kind = "go"
                                      /\ packageFile(filepath_Base(x))}}

MatchedByEmbed(p) ==
    \E pattern \in EmbedPatternsIn(ParentOf[p]) :
        Match(TrimPrefix(pattern, <<"a", "l", "l", ":">>), filepath_Base(p))

\* C8 (determinism): computed twice over the same tree, flags and
\* environment, under whatever orders of enumeration, the fingerprint is the
\* same (and fails to be computed the second time iff it failed the first).
C8_Determinism ==
    (phase = "done" /\ ch.what = "nothing") => (r1.ok = r2.ok /\ r1.fp = r2.fp)

C8_Witness ==
    /\ phase = "done" /\ ch.what = "nothing"
    /\ r1.ok /\ r2.ok
    /\ r1.order # r2.order
    /\ PathQGoMod \in r1.files
    /\ environ = RichEnvironment
    /\ r1.fp = r2.fp

\* the content of a hashed source, manifest or lockfile changed, or the flag
\* list, or a tracked environment variable (its value, or set against unset)
SensitiveChange ==
    \/ /\ ch.what = "file"
       /\ ch.path \in r1.files /\ ~MatchedByEmbed(ch.path)
       /\ ch.before.type = "file" /\ ch.after.type = "file"
    \/ ch.what = "flags"
    \/ ch.what = "env" /\ ch.name \in Range(TrackedEnv)

\* C9 (sensitivity): such a change between two computations that both
\* return a fingerprint makes the two fingerprints differ.
C9_Sensitivity ==
    (phase = "done" /\ r1.ok /\ r2.ok /\ SensitiveChange) => r1.fp # r2.fp

\* an entry that is no compiled source: a test file, a name beginning with
\* "_" or ".", a name without a source extension, or no regular file
NotCompiled(name, e) ==
    \/ e.type = "irregular"
    \/ /\ e.type = "file"
       /\ \/ HasSuffix(name, <<"_", "t", "e", "s", "t", ".", "g", "o">>)
          \/ Head(name) \in {"_", "."}
          \/ ~srcRE(name)

\* such a file of a traced package directory, matched by no embed pattern,
\* was added, removed or changed
LitterChange ==
    /\ ch.what = "file"
    /\ ParentOf[ch.path] \in r1.pkgs
    /\ ch.before.type = "none" \/ NotCompiled(filepath_Base(ch.path), ch.before)
    /\ ch.after.type = "none" \/ NotCompiled(filepath_Base(ch.path), ch.after)
    /\ ~MatchedByEmbed(ch.path)

UntrackedEnvChange == ch.what = "env" /\ ch.name \notin Range(TrackedEnv)

\* C10 as the spec states it (insensitivity): a change of an untracked
\* environment variable, or of a file of a traced package directory that is
\* no compiled source and is matched by no embed pattern, leaves the
\* fingerprint as it was.
C10_Insensitivity ==
    (phase = "done" /\ r1.ok /\ (UntrackedEnvChange \/ LitterChange))
        => (r2.ok /\ r2.fp = r1.fp)

\* C10 as amended: the same, for files other than go.mod and go.sum, which
\* are hashed as the manifest and the lockfile of the module whose root the
\* package directory is.
C10_InsensitivityButManifests ==
    (/\ phase = "done" /\ r1.ok
     /\ \/ UntrackedEnvChange
        \/ LitterChange /\ filepath_Base(ch.path) \notin {GoModName, GoSumName})
        => (r2.ok /\ r2.fp = r1.fp)

C10_Witness ==
    /\ phase = "done" /\ r1.ok /\ r2.ok
    /\ LitterChange
    /\ ch.path = PathATest /\ ch.before.type = "none" /\ ch.after.type = "file"
    /\ r2.fp = r1.fp

(***************************************************************************)
(* Claims about what the source walk traces.                               *)
(***************************************************************************)
\* a computation was made over the tree as it now is, and Latest is its outcome
Computed == phase \in {"ran", "done", "launched"}
Latest == IF phase = "ran" THEN r1 ELSE r2

\* the compiled sources of a directory
Sources(dir) ==
    {p \in FilePaths : /\ ParentOf[p] = dir
                       /\ fs[p].type = "file"
                       /\ packageFile(filepath_Base(p))}

\* what the .go sources of a directory import
ImportsIn(dir) ==
    UNION {Range(fs[p].data.imports) : p \in {q \in Sources(dir) : fs[q].data.kind = "go"}}

\* the manifest and, if there is one, the lockfile of the module rooted at dir
ManifestFiles(dir) ==
    {filepath_Join(dir, GoModName)}
    \cup (IF Exists(filepath_Join(dir, GoSumName)) THEN {filepath_Join(dir, GoSumName)} ELSE {})

\* the hashed files that are no embedded files of /m/c
Traced(files) == {f \in files : ~HasPrefix(f, DirC \o <<"/">>) \/ f \in Sources(DirC)}

\* /m/go.mod requires r.io/x and ex.io/q and replaces ex.io/q by the directory /q
ReplacesQ == fs[PathMGoMod] \in {File(ManifestM(r)) : r \in Revs}

\* /m/c imports the path, itself or through /m/l
ImportedFromC(importPath) ==
    \/ importPath \in ImportsIn(DirC)
    \/ ImportL \in ImportsIn(DirC) /\ importPath \in ImportsIn(DirL)

\* C11 (cross-module tracing): with ex.io/q replaced by the local directory
\* /q and r.io/x required and not replaced, the hash map holds, besides the
\* embedded files, exactly the sources of /m/c and of the packages of ex.io/m
\* it imports, the manifest and lockfile of ex.io/m and, if ex.io/q is
\* imported, the sources of /q with the manifest and lockfile of ex.io/q;
\* importing r.io/x adds no file.
C11_CrossModuleTracing ==
    (Computed /\ Latest.ok /\ ReplacesQ) =>
        Traced(Latest.files) =
            Sources(DirC) \cup ManifestFiles(DirM)
            \cup (IF ImportL \in ImportsIn(DirC) THEN Sources(DirL) ELSE {})
            \cup (IF ImportedFromC(ImportQ)
                  THEN Sources(DirQ) \cup ManifestFiles(DirQ) ELSE {})

C11_Witness ==
    /\ Computed /\ Latest.ok /\ ReplacesQ
    /\ {ImportQ, ImportR} \subseteq ImportsIn(DirC)
    /\ {PathQ, PathQGoMod, PathQGoSum} \subseteq Latest.files
    /\ Latest.pkgs = {DirC, DirL, DirQ}

\* the root of the module that encloses dir: the nearest directory upwards
\* that holds a go.mod
RECURSIVE ModuleRootOf(_)
ModuleRootOf(dir) ==
    IF Exists(filepath_Join(dir, GoModName)) \/ dir = Root THEN dir
    ELSE ModuleRootOf(filepath_Dir(dir))

\* C12 (scenario A): the manifest of the module enclosing each traced package
\* directory, and its lockfile if there is one, are in the hash map; and for a
\* package that imports only builtin-like paths and embeds nothing the map
\* holds exactly its own sources, that manifest and that lockfile.
C12_ManifestsAlwaysHashed ==
    (Computed /\ Latest.ok) =>
        /\ \A d \in Latest.pkgs : ManifestFiles(ModuleRootOf(d)) \subseteq Latest.files
        /\ (ImportsIn(DirC) \subseteq {ImportFmt, ImportHTTP} /\ EmbedPatternsIn(DirC) = {})
              => Latest.files = Sources(DirC) \cup ManifestFiles(ModuleRootOf(DirC))

C12_Witness ==
    /\ Computed /\ Latest.ok
    /\ ImportsIn(DirC) = {ImportFmt} /\ EmbedPatternsIn(DirC) = {}
    /\ fs[PathATest].type = "file"
    /\ Latest.files = {PathA, PathMGoMod, PathMGoSum}

(***************************************************************************)
(* Claims about the orchestrator's failure paths.                          *)
(***************************************************************************)
\* C13 (TryExec): a first probe that fails with anything but "does not
\* exist" ends the invocation with status 255; it never took the lock, never
\* cleaned up, never ran the compiler, and the step leaves the cache, its
\* directories and its locks as they were.
C13_ProbeFailureIsFatal ==
    [][\A i \in Procs :
          (/\ pc[i] = "probe" /\ pc'[i] # "probe"
           /\ execProgram(cache[pkg[i]][sum[i]]) \notin {"ok", "ENOENT"})
          => /\ pc'[i] = "exited"
             /\ exit'[i] = StatusFatal
             /\ hist'[i].cause = "probe"
             /\ ~hist'[i].locked /\ ~hist'[i].cleaned /\ ~hist'[i].compiled
             /\ cache' = cache /\ cacheDir' = cacheDir /\ lock' = lock]_vars

C13_Witness ==
    \E i \in Procs :
        /\ pc[i] = "exited" /\ hist[i].cause = "probe" /\ exit[i] = StatusFatal
        /\ hist[i].probes = 1 /\ ~hist[i].locked /\ ~hist[i].compiled
        /\ cache[pkg[i]][sum[i]].st = "partial"

\* C14 (Rebuild): when the compiler reports failure the invocation ends at
\* once with status 255, having made the first probe only.
C14_BuildFailureIsFatal ==
    [][\A i \in Procs :
          (/\ pc[i] = "build" /\ pc'[i] \notin {"build", "writing"}
           /\ mclock'[pkg[i]] = mclock[pkg[i]])
          => /\ pc'[i] = "exited"
             /\ exit'[i] = StatusFatal
             /\ hist'[i].cause = "build"
             /\ hist'[i].probes = 1
             /\ wstatus'[i] = NoStatus]_vars

C14_Witness ==
    \E i \in Procs :
        /\ pc[i] = "exited" /\ hist[i].cause = "build" /\ exit[i] = StatusFatal
        /\ hist[i].probes = 1 /\ hist[i].compiled /\ wstatus[i] = NoStatus

(***************************************************************************)
(* Claims about the embed resolver.                                        *)
(***************************************************************************)
\* the regular files of /m/c/e, and those of /m/c/e/n
FilesOfE == {p \in {PathEA, PathEB, PathEC} : fs[p].type = "file"}
FilesOfN == {p \in {PathNGoMod, PathNX} : fs[p].type = "file"}

\* the hashed files below the embedded directory
HashedBelowE == {f \in Latest.files : HasPrefix(f, DirE \o <<"/">>)}

\* C15 (scenario B): when /m/c embeds its directory e, the files hashed
\* below e are the regular files of e and, only if the nested directory n
\* holds no go.mod, those of n: with 3 regular files in e and a go.mod in n
\* exactly those 3 files are hashed.
C15_EmbedStopsAtModule ==
    (Computed /\ Latest.ok /\ PatternE \in EmbedPatternsIn(DirC)) =>
        HashedBelowE = FilesOfE \cup (IF Exists(PathNGoMod) THEN {} ELSE FilesOfN)

C15_Witness ==
    /\ Computed /\ Latest.ok /\ PatternE \in EmbedPatternsIn(DirC)
    /\ Exists(PathNGoMod) /\ fs[PathNX].type = "file"
    /\ HashedBelowE = {PathEA, PathEB, PathEC}

\* a pattern of /m/c matches nothing
MatchesNothing == \E pattern \in EmbedPatternsIn(DirC) : Glob(DirC, pattern) = {}

\* a pattern of /m/c matches a directory in which the walk finds no file
MatchesBareDirectory ==
    \E pattern \in EmbedPatternsIn(DirC) :
        \E d \in Glob(DirC, pattern) : Lstat(d).type = "dir" /\ Walk(d, FALSE) = {}

\* C16 (scenario C): when an embed pattern of the package matches nothing,
\* or a directory without eligible files, the computation fails and returns
\* no fingerprint, and the invocation given that outcome ends with status
\* 255, having made no probe and run no compiler, the cache untouched.
C16_EmbedFailureIsFatal ==
    (Computed /\ (MatchesNothing \/ MatchesBareDirectory)) =>
        /\ ~Latest.ok
        /\ Latest.fp = NoResult.fp /\ Latest.files = {}
        /\ phase = "launched" =>
              /\ pc[1] = "exited" /\ exit[1] = StatusFatal
              /\ hist[1].cause = "checksum"
              /\ hist[1].probes = 0 /\ ~hist[1].locked /\ ~hist[1].compiled
              /\ \A p \in Pkgs : Entries(p) = {} /\ ~cacheDir[p]

C16_Witness ==
    /\ phase = "launched" /\ MatchesBareDirectory
    /\ fs[PathNX].type = "file"
    /\ r2.err = "cannot embed directory: contains no embeddable files"
    /\ pc[1] = "exited" /\ exit[1] = StatusFatal /\ hist[1].probes = 0

(***************************************************************************)
(* Claims about the package resolver and the module parser.                *)
(***************************************************************************)
\* C17 (termination): resolveImport returns for every directory, import
\* path and configuration of manifests.  (The model gives up on a resolution
\* after MaxHops changes of root; in this tree a second change of root
\* returns to a root already tried, with its module cached, so that every
\* further turn of the loop repeats the last.)
C17_ResolverTerminates ==
    Computed => Latest.err # "resolveImport does not return"

\* import paths to resolve, and the directories to resolve them from
ImportPaths ==
    {ModulePathM, ModulePathM \o <<"/", "l">>, ModulePathQ, ModulePathR,
     ModulePathR \o <<"/", "y">>, ModulePathM \o <<"l">>}
ResolutionRoots == {DirC, DirQ}

\* the entries of a module that are the import path or a "/"-bounded prefix of it
Matching(info, importPath) ==
    {e \in Range(info.packages) : e[1] = importPath \/ HasPrefix(importPath, e[1] \o <<"/">>)}

IsLongest(e, S) == e \in S /\ \A x \in S : Len(x[1]) <= Len(e[1])

Selected(info, importPath, o) ==
    LongestMatch(Enumerate(info.packages, o), importPath, <<<<>>, <<>>>>)

\* a turn of the loop in module info, of which M are the matching entries,
\* sel the selected one and t the turn's outcome
TurnAgrees(M, sel, t) ==
    /\ t.kind = "outside" <=> M = {}
    /\ M # {} => IsLongest(sel, M)
    /\ t.kind = "remote" <=> (M # {} /\ sel[2] = <<>>)
    /\ t.kind \in {"local", "hop"} => HasPrefix(t.dir, <<"/">>)
    /\ t.kind = "hop" => t.dir = sel[2]

SelectionOK(info, importPath, sel) ==
    TurnAgrees(Matching(info, importPath), sel, Turn(info, sel, importPath))

TurnOK(m) ==
    m.pctx.err = "" =>
        \A importPath \in ImportPaths, o \in Orders :
            SelectionOK(m.info, importPath, Selected(m.info, importPath, o))

\* C18 as amended (longest prefix): in each turn of its loop the resolver
\* selects, of the entries of the module that owns the current root that are
\* the import path or a "/"-bounded prefix of it, the longest, under every
\* order of the map; the turn fails with "package outside every module" iff
\* no entry matches, returns "remote" iff the selected entry carries the
\* remote sentinel, and otherwise has a local directory: the package's own,
\* which it returns, if the entry is the module's declared path, else the
\* replacement's, from which resolution is repeated.
C18_LongestPrefixPerTurn ==
    \A dir \in ResolutionRoots : TurnOK(findModule(NewParseContext, dir))

\* a whole resolution r from the root whose module is m
WholeAgrees(M, sel, r) ==
    /\ r.pctx.err = "package is outside of every module" <=> M = {}
    /\ M # {} => IsLongest(sel, M)
    /\ (r.pctx.err = "" /\ ~r.local) <=> (M # {} /\ sel[2] = <<>>)
    /\ (M # {} /\ sel[2] # <<>>) => (r.pctx.err = "" /\ r.local)

WholeOK(m, dir) ==
    m.pctx.err = "" =>
        \A importPath \in ImportPaths, o \in Orders :
            WholeAgrees(Matching(m.info, importPath), Selected(m.info, importPath, o),
                        resolveImport(NewParseContext, dir, importPath, o, MaxHops))

\* C18 as the spec states it: the same of the resolver as a whole, which
\* after a match that is not remote returns a local directory.
C18_LongestPrefix ==
    \A dir \in ResolutionRoots : WholeOK(findModule(NewParseContext, dir), dir)

\* ex.io/m/l matches the module's own path and the longer ex.io/m/l, which is
\* required and not replaced: the import is remote and /m/l is not traced
C18_Witness ==
    /\ Computed /\ Latest.ok
    /\ fs[PathMGoMod] = File(ManifestMShadow)
    /\ ImportL \in ImportsIn(DirC)
    /\ Cardinality(Matching(findModule(NewParseContext, DirC).info,
                            ModulePathM \o <<"/", "l">>)) = 2
    /\ Latest.pkgs = {DirC, DirQ}

\* the moduleInfo m parsed from the manifest of the module rooted at dir
RootOK(m, dir) ==
    m.pctx.err = "" =>
        /\ MapHas(m.info.packages, m.info.path)
        /\ MapGet(m.info.packages, m.info.path) = dir

\* C19 (invariant of moduleInfo): whatever the manifest requires and
\* replaces, packages[path] of the moduleInfo parsed from it is the module's
\* root directory.
C19_OwnPathIsRoot ==
    \A dir \in {DirM, DirQ} : RootOK(parseModule(NewParseContext, dir), dir)

(***************************************************************************)
(* Claims about the second probe.                                          *)
(***************************************************************************)
\* C20 (TryExecAfterBuild): an invocation whose update stored the binary of
\* its fingerprint finds it at its path when it makes the second probe,
\* whatever other invocations for the package did in between.
C20_BuiltEntryPresent ==
    \A i \in Procs : pc[i] = "probe2" => cache[pkg[i]][sum[i]].st # "absent"

(***************************************************************************)
(* Claims about updateCache.                                               *)
(***************************************************************************)
\* the invocation holds the flock on its package's cache directory
HoldsLock(i) == lock[packageCacheDir(pkg[i], sum[i])] = i

\* C21 (updateCache): the steps are open, flock, cacheCleanup, build.  An
\* invocation past the flock has the directory open and holds the lock; the
\* compiler runs only under the lock and after a cleanup that returned nil;
\* an invocation that failed to open, to lock or to clean up never ran the
\* compiler and exits with status 255.
C21_UpdateOrder ==
    \A i \in Procs :
        /\ pc[i] \in {"cleanup", "build", "writing"} =>
                cacheDir[pkg[i]] /\ hist[i].locked /\ HoldsLock(i)
        /\ pc[i] \in {"build", "writing"} => hist[i].cleaned
        /\ hist[i].compiled => hist[i].locked /\ hist[i].cleaned /\ hist[i].probes >= 1
        /\ hist[i].cleaned => hist[i].locked
        /\ (pc[i] = "exited" /\ hist[i].cause \in {"open", "flock", "cleanup"}) =>
                /\ exit[i] = StatusFatal
                /\ ~hist[i].compiled
                /\ wstatus[i] = NoStatus
                /\ ~HoldsLock(i)

C21_Witness ==
    \E i, j \in Procs :
        /\ pc[i] = "exited" /\ hist[i].cause = "cleanup" /\ hist[i].locked
        /\ exit[i] = StatusFatal /\ ~hist[i].compiled
        /\ pc[j] = "writing" /\ HoldsLock(j) /\ hist[j].cleaned

\* C22 (updateCache): the flock ends with every way out of updateCache, a
\* crash included, so a lock is held only by an invocation between its flock
\* and its return, and an invocation that waits for the lock gets past the
\* wait.
NoAbandonedLock ==
    \A k \in DOMAIN lock :
        lock[k] # 0 =>
            /\ pc[lock[k]] \in {"cleanup", "build", "writing"}
            /\ packageCacheDir(pkg[lock[k]], sum[lock[k]]) = k

Waiting(i) == pc[i] = "flock"

C22_LockAlwaysReleased ==
    /\ []NoAbandonedLock
    /\ \A i \in Procs : Waiting(i) ~> ~Waiting(i)

C22_Witness ==
    \E i, j \in Procs :
        /\ pc[i] = "exited" /\ hist[i].cause = "crash" /\ hist[i].cleaned
        /\ Waiting(j) /\ pkg[j] = pkg[i] /\ lock[packageCacheDir(pkg[j], sum[j])] = 0

\* what a cleanup that met deletions leaves: nothing that was not there, the
\* survivors as they were, and no more of them than a cleanup keeps
Kept(before, after) ==
    /\ Present(after) \subseteq Present(before)
    /\ \A f \in Present(after) : after[f] = before[f]
    /\ Cardinality(Present(after)) <= keepCacheEntriesOnCleanup

\* C23 (cacheCleanup): a cleanup that finds its directory gone, or an entry
\* gone before its Info or before its os.Remove, returns nil all the same:
\* the invocation keeps the lock and goes on to the compiler, and the
\* directory holds at most the entries a cleanup keeps.
C23_VanishingTolerated ==
    [][\A i \in Procs :
          (pc[i] = "cleanup" /\ ~hist[i].raced /\ hist'[i].raced)
          => /\ pc'[i] = "build"
             /\ hist'[i].cleaned
             /\ exit'[i] = NoStatus
             /\ lock' = lock /\ lock[packageCacheDir(pkg[i], sum[i])] = i
             /\ Kept(cache[pkg[i]], cache'[pkg[i]])
             /\ ~cacheDir'[pkg[i]] => Present(cache'[pkg[i]]) = {}]_vars

C23_Witness ==
    \E i \in Procs :
        /\ pc[i] = "exited" /\ hist[i].raced /\ hist[i].compiled
        /\ hist[i].cause = "prog" /\ hist[i].probes = 2
        /\ Cardinality(Present(cache[pkg[i]])) = 2

(***************************************************************************)
(* Claims about the parse context: the module cache, the visited set and   *)
(* the map of hashes.                                                      *)
(***************************************************************************)
\* the directories findModule may be asked about
LookupDirs == Dirs \ {Root}

\* dir and the directories above it, up to top
RECURSIVE UpTo(_, _)
UpTo(dir, top) ==
    IF dir = top \/ dir = Root THEN {dir} ELSE {dir} \cup UpTo(filepath_Dir(dir), top)

\* r is what findModule returned for dir in the context `before`
LookupOK(before, r, dir) ==
    /\ r.pctx.err # Panic
    /\ r.pctx.err = "" =>
        /\ \A x \in UpTo(dir, ModuleRootOf(dir)) :
                MapHas(r.pctx.modules, x) /\ MapGet(r.pctx.modules, x) = r.info
        /\ \A x \in MapKeys(before.modules) :
                MapGet(r.pctx.modules, x) = MapGet(before.modules, x)
        /\ MapHas(before.modules, ModuleRootOf(dir)) =>
                r.pctx.checksums = before.checksums

LookupsOK(first, dir) ==
    /\ LookupOK(NewParseContext, first, dir)
    /\ first.pctx.err = "" =>
            \A d \in LookupDirs : LookupOK(first.pctx, findModule(first.pctx, d), d)

\* C24 (findModule): after a lookup that succeeded, every directory from the
\* one asked about up to the module's root maps to the module returned; no
\* mapping made earlier is changed; a lookup whose module root is cached
\* hashes nothing, and no manifest is parsed (and hashed) a second time.
\* (Stated of every file tree: each is the tree of a state before a
\* computation.)
C24_ModuleCacheBackfilled ==
    phase \in {"input", "changed"} =>
        \A d \in LookupDirs : LookupsOK(findModule(NewParseContext, d), d)

SiblingLookup(first) ==
    /\ first.pctx.err = ""
    /\ MapKeys(first.pctx.modules) = {DirE, DirC, DirM}
    /\ MapKeys(findModule(first.pctx, DirL).pctx.modules) = {DirE, DirC, DirM, DirL}
    /\ findModule(first.pctx, DirL).info = first.info
    /\ MapKeys(findModule(first.pctx, DirQ).pctx.modules) = {DirE, DirC, DirM, DirQ}
    /\ findModule(first.pctx, DirQ).info # first.info

C24_Witness ==
    /\ Computed /\ Latest.ok /\ {DirC, DirL} \subseteq Latest.pkgs
    /\ SiblingLookup(findModule(NewParseContext, DirE))

\* /m/c imports /m/l and /m/l imports /m/c
CyclicImports == ImportL \in ImportsIn(DirC) /\ ImportC \in ImportsIn(DirL)

\* /m/c imports /m/l and ex.io/q, and /m/l imports ex.io/q
DiamondImports == {ImportL, ImportQ} \subseteq ImportsIn(DirC) /\ ImportQ \in ImportsIn(DirL)

NoDuplicates(s) == \A i, j \in DOMAIN s : s[i] = s[j] => i = j

\* the sources of /m/c that a //go:embed pattern of /m/c lists
EmbeddedSources ==
    {f \in Sources(DirC) :
        \E i \in DOMAIN fs[PathA].data.embeds :
            Rel(f, DirC) \in EmbedPattern(DirC, fs[PathA].data.embeds[i]).files}

\* C25 (parsePackage): a directory is marked as visited when the walk enters
\* it and is not scanned again, so the walk asks for no source's hash twice
\* (a second request can only be for an embedded file), and the walk of a
\* cyclic or a diamond-shaped import graph returns, with every package of
\* the graph traced and its sources hashed once.
C25_EachPackageTracedOnce ==
    Computed =>
        /\ EmbeddedSources = {} => Latest.err # Panic
        /\ Latest.ok =>
                /\ DirC \in Latest.pkgs
                /\ NoDuplicates(Latest.order)
                /\ \A d \in Latest.pkgs : Sources(d) \subseteq Latest.files
        /\ (ReplacesQ /\ CyclicImports) =>
                Latest.ok /\ {DirC, DirL} \subseteq Latest.pkgs
        /\ (ReplacesQ /\ DiamondImports) =>
                Latest.ok /\ Latest.pkgs = {DirC, DirL, DirQ}

C25_Witness ==
    /\ phase = "done" /\ ch.path = PathL
    /\ CyclicImports
    /\ r2.ok /\ r2.pkgs = {DirC, DirL, DirQ}
    /\ {PathA, PathL} \subseteq r2.files

\* `after` is what addChecksum made of `before` when asked for filename
HashStepOK(before, after, filename) ==
    /\ \A k \in MapKeys(before.checksums) :
            /\ MapHas(after.checksums, k)
            /\ MapGet(after.checksums, k) = MapGet(before.checksums, k)
    /\ CASE MapHas(before.checksums, filename) ->
                after.err = Panic /\ after.checksums = before.checksums
          [] ~MapHas(before.checksums, filename) /\ Lstat(filename).type # "file" ->
                after.err \notin {"", Panic} /\ after.checksums = before.checksums
          [] OTHER ->
                /\ after.err = ""
                /\ MapKeys(after.checksums) = MapKeys(before.checksums) \cup {filename}
                /\ MapGet(after.checksums, filename) = Sha256(fs[filename].data)

HashStepsOK(first, filename) ==
    /\ HashStepOK(NewParseContext, first, filename)
    /\ first.err = "" =>
            \A p \in AllPaths : HashStepOK(first, addChecksum(first, p), p)

\* C26 (addChecksum): the map of hashes only grows.  A request keeps every
\* entry there is; for a filename that has a hash it ends in the internal
\* error and changes nothing; for a file that cannot be opened or read it
\* returns the error and adds nothing; otherwise it adds the file's hash.
\* (Stated of every file tree: each is the tree of a state before a
\* computation.)
C26_HashesOnlyGrow ==
    phase \in {"input", "changed"} =>
        \A p \in AllPaths : HashStepsOK(addChecksum(NewParseContext, p), p)

C26_Witness ==
    /\ Computed /\ Latest.ok /\ PathA \in Latest.files
    /\ fs[PathLink] = Irregular
    /\ addChecksum(addChecksum(NewParseContext, PathA), PathA).err = Panic
    /\ addChecksum(addChecksum(NewParseContext, PathA), PathLink).err = "read error"
    /\ MapKeys(addChecksum(addChecksum(NewParseContext, PathA), PathL).checksums)
            = {PathA, PathL}

(***************************************************************************)
(* Claims about embedded files and the map of hashes.                      *)
(***************************************************************************)
\* the //go:embed patterns of /m/c/a.go, in the order written
PatternsOfA ==
    IF fs[PathA].type = "file" /\ fs[PathA].data.kind = "go" THEN fs[PathA].data.embeds
    ELSE <<>>

ListedByBoth(i, j) ==
    IF i < j
    THEN EmbedPattern(DirC, PatternsOfA[i]).files \cap EmbedPattern(DirC, PatternsOfA[j]).files
    ELSE {}

\* the files of /m/c that two of a.go's patterns list
MultiplyMatched ==
    {filepath_Join(DirC, f) :
        f \in UNION {ListedByBoth(i, j) : i \in DOMAIN PatternsOfA, j \in DOMAIN PatternsOfA}}

\* the embedded files of /m/c in the order they were hashed
EmbeddedOrder(order) ==
    SelectSeq(order, LAMBDA f : HasPrefix(f, DirC \o <<"/">>) /\ f \notin Sources(DirC))

Ascending(s) == \A i \in 1..(Len(s) - 1) : StrLess(s[i], s[i + 1])

Occurrences(s, x) == Cardinality({i \in DOMAIN s : s[i] = x})

\* C27 (resolveEmbed, parsePackage): a file that several patterns of a
\* package list, by name or through the walk of a directory, is in the
\* resolved list once; the list is hashed in ascending order without a
\* repetition; the file is hashed once, and when it is no source of the
\* package the computation does not end in the internal error.
C27_EmbeddedOnce ==
    (Computed /\ MultiplyMatched # {}) =>
        /\ resolveEmbed(DirC, PatternsOfA).err = "" =>
                MultiplyMatched \subseteq
                    {filepath_Join(DirC, f) : f \in resolveEmbed(DirC, PatternsOfA).files}
        /\ MultiplyMatched \cap Sources(DirC) = {} => Latest.err # Panic
        /\ Latest.ok =>
                /\ \A f \in MultiplyMatched : Occurrences(Latest.order, f) = 1
                /\ NoDuplicates(Latest.order)
                /\ Ascending(EmbeddedOrder(Latest.order))

C27_Witness ==
    /\ Computed /\ Latest.ok
    /\ PatternsOfA = <<PatternE, PatternEA>>
    /\ MultiplyMatched = {PathEA}
    /\ EmbeddedOrder(Latest.order) = <<PathEA, PathEB, PathEC>>

(***************************************************************************)
(* Claims about the ends of an invocation.                                 *)
(***************************************************************************)
\* the invocation ended and the program was never run
FatalEnd(i) == pc[i] = "exited" /\ wstatus[i] = NoStatus

\* the compiler ran and failed: there was no second probe
BuildFailed(i) == hist[i].compiled /\ hist[i].probes = 1

\* C28 as stated: every fatal end writes one line of realMain's own, with
\* status 255, or 2 after a usage error.
C28_OneLinePerFatalEnd ==
    \A i \in Procs :
        FatalEnd(i) =>
            /\ exit[i] \in {StatusFatal, StatusUsage}
            /\ exit[i] = StatusFatal => hist[i].lines = 1

\* C28 (realMain): a fatal end has status 255 or 2.  With 255 realMain wrote
\* one line of its own, except after a failed build, where it wrote none;
\* status 2 is the end before any access to the cache with no line of
\* realMain's own (the usage text, or the report of a panic in checksum).
C28_FatalEnds ==
    \A i \in Procs :
        FatalEnd(i) =>
            /\ exit[i] \in {StatusFatal, StatusUsage, StatusPanic}
            /\ exit[i] = StatusFatal =>
                    hist[i].lines = IF BuildFailed(i) THEN 0 ELSE 1
            /\ exit[i] # StatusFatal =>
                    hist[i].lines = 0 /\ hist[i].probes = 0 /\ ~hist[i].locked

C28_Witness ==
    \E i \in Procs :
        /\ FatalEnd(i) /\ BuildFailed(i)
        /\ exit[i] = StatusFatal /\ hist[i].lines = 0 /\ hist[i].cause = "build"

(***************************************************************************)
(* Claims about the imports the walk skips.                                *)
(***************************************************************************)
\* import literals, as written in a source file: those of the trees, and
\* "C", "a1", "go/ast", "", "x.y/z", "Fmt/a", "a/B" and fmt written as a raw
\* string literal ("bq" stands for the back quote)
ImportLiterals ==
    {ImportFmt, ImportHTTP, ImportC, ImportL, ImportQ, ImportR,
     <<"\"", "C", "\"">>, <<"\"", "a", "1", "\"">>,
     <<"\"", "g", "o", "/", "a", "s", "t", "\"">>, <<"\"", "\"">>,
     <<"\"", "x", ".", "y", "/", "z", "\"">>, <<"\"", "F", "m", "t", "/", "a", "\"">>,
     <<"\"", "a", "/", "B", "\"">>, <<"bq", "f", "m", "t", "bq">>}

\* how many lowercase letters follow the first character of v
LowerRun(v) == Cardinality({k \in 2..Len(v) : \A i \in 2..k : v[i] \in Lower})

\* the literal is a double quote, one or more lowercase letters, and then a
\* slash or the closing quote: the first segment of the path is lowercase
LowercaseFirstSegment(v) ==
    /\ v # <<>> /\ v[1] = "\""
    /\ LowerRun(v) >= 1
    /\ Len(v) >= LowerRun(v) + 2
    /\ v[LowerRun(v) + 2] \in {"/", "\""}

\* the path is one segment of lowercase letters
SingleSegmentLowercase(v) ==
    /\ stripPackageQuotes(v) # <<>>
    /\ \A i \in DOMAIN stripPackageQuotes(v) : stripPackageQuotes(v)[i] \in Lower

\* resolveImport returns for the import, and a local package it names was traced
ResolvedOK(r) == r.pctx.err = "" /\ (r.local => r.dir \in Latest.pkgs)

ResolvesFrom(dir, v) ==
    \A o \in Orders :
        ResolvedOK(resolveImport(NewParseContext, dir, stripPackageQuotes(v), o, MaxHops))

\* C29 as stated: an import is skipped exactly when its path is a single
\* lowercase segment; any other import of a traced package was resolved, so
\* in a computation that succeeded its resolution succeeds.
C29_SkipsSingleSegment ==
    /\ \A v \in ImportLiterals : stdlibPackageRE(v) <=> SingleSegmentLowercase(v)
    /\ (Computed /\ Latest.ok) =>
            \A d \in Latest.pkgs : \A v \in ImportsIn(d) :
                ~SingleSegmentLowercase(v) => ResolvesFrom(d, v)

\* C29 (parsePackage, stdlibPackageRE): an import is skipped exactly when its
\* literal is a double quote, one or more lowercase letters, and a slash or
\* the closing quote, that is when the first segment of the path is
\* lowercase letters only, whatever follows it; any other import of a traced
\* package was resolved: in a computation that succeeded its resolution
\* succeeds and a local package it names was traced, and a computation that
\* found a package outside of every module met such an import.
C29_SkipsLowercaseFirstSegment ==
    /\ \A v \in ImportLiterals : stdlibPackageRE(v) <=> LowercaseFirstSegment(v)
    /\ (Computed /\ Latest.ok) =>
            \A d \in Latest.pkgs : \A v \in ImportsIn(d) :
                ~LowercaseFirstSegment(v) => ResolvesFrom(d, v)
    /\ (Computed /\ Latest.err = "package is outside of every module") =>
            \E d \in {DirC, DirL, DirQ} : \E v \in ImportsIn(d) : ~LowercaseFirstSegment(v)

\* /m/l is traced and imports net/http, which no module of the tree provides
C29_Witness ==
    /\ Computed /\ Latest.ok
    /\ DirL \in Latest.pkgs /\ ImportHTTP \in ImportsIn(DirL)
    /\ ~SingleSegmentLowercase(ImportHTTP) /\ LowercaseFirstSegment(ImportHTTP)
    /\ \A o \in Orders :
            resolveImport(NewParseContext, DirL, stripPackageQuotes(ImportHTTP), o,
                          MaxHops).pctx.err = "package is outside of every module"
    /\ ResolvesFrom(DirC, ImportL)

\* C30 (addChecksum): no computation asks twice for the hash of a file.
C30_NoDoubleHash == Computed => Latest.err # Panic

\* C31 (realMain, updateCache): an invocation touches the cache only once it
\* has its fingerprint; it probes at most twice; its compiler starts at most
\* once, after exactly one probe, which missed; nothing leads back into the
\* update, so an invocation whose compiler has started comes to run the
\* program or to end.
NoAccessYet(i) ==
    /\ hist[i].probes = 0
    /\ ~hist[i].locked /\ ~hist[i].cleaned /\ ~hist[i].compiled
    /\ \A k \in DOMAIN lock : lock[k] # i

InUpdateCache(i) == pc[i] \in {"open", "flock", "cleanup", "build", "writing"}

StraightLine ==
    \A i \in Procs :
        /\ sum[i] = 0 => NoAccessYet(i) /\ pc[i] \in {"init", "exited"}
        /\ pc[i] = "probe" => NoAccessYet(i)
        /\ hist[i].probes <= 2
        /\ InUpdateCache(i) => hist[i].probes = 1
        /\ hist[i].compiled => hist[i].probes >= 1 /\ pc[i] # "build"
        /\ hist[i].probes = 2 => hist[i].compiled

CompilerStarts(i) == ~hist[i].compiled /\ hist'[i].compiled

NoWayBack ==
    \A i \in Procs :
        /\ pc[i] = "probe" /\ pc'[i] = "open"
              => execProgram(cache[pkg[i]][sum[i]]) = "ENOENT"
        /\ pc'[i] = "open" => pc[i] \in {"open", "probe"}
        /\ CompilerStarts(i) => pc[i] = "build" /\ hist[i].probes = 1
        /\ hist[i].compiled =>
              pc'[i] \in {"writing", "probe2", "running", "exited", "init"}
        /\ hist'[i].probes \in {hist[i].probes, hist[i].probes + 1, 0}

\* the program runs or has run in the place of the invocation, or the
\* invocation ended without it
Ended(i) ==
    \/ pc[i] = "running"
    \/ pc[i] = "exited" /\ wstatus[i] # NoStatus
    \/ pc[i] = "exited" /\ exit[i] \in {StatusFatal, Killed}

C31_NoRetry ==
    /\ []StraightLine
    /\ [][NoWayBack]_vars
    /\ \A i \in Procs : hist[i].compiled ~> Ended(i)

C31_Witness ==
    \E i, j \in Procs :
        /\ pc[i] = "running" /\ hist[i].compiled /\ hist[i].probes = 2
        /\ pc[j] = "exited" /\ hist[j].cause = "probe2" /\ hist[j].probes = 2
        /\ exit[j] = StatusFatal

====
